---- MODULE Spec2Model ----
(***************************************************************************)
(* Verification model of the sequential-job-worker: the campaign scheduler *)
(* (admission gate, poller, retrigger), the run completion tracker and the *)
(* stage workers chained through the queues.                               *)
(*                                                                         *)
(* The module holds several specifications over one set of variables:      *)
(*   SpecTracker  markJobDone callers interleaving on the counter store    *)
(*   SpecEndRun   the status determination of finalization                 *)
(*   SpecBudget   isBudgetExceeded over campaigns, calendars and histories *)
(*   SpecGate     shouldRunCampaign and retriggerCampaignIfNeeded          *)
(*   SpecVolume   isVolumeExceeded                                         *)
(*   SpecPoller   the scheduler's timer and its in-flight flag             *)
(*   SpecClient   callService and runsRequest: retries and backoff         *)
(*   SpecStages   one run with its payloads through the stage workers      *)
(*   SpecProcess  index.ts: environment guard, startup, signal handlers    *)
(*   SpecLedger   the budget check on one page of a long run ledger        *)
(*   SpecStop     the budget-based stop of a campaign                      *)
(*   Spec         the pipeline: poller, queues, workers, run ledger        *)
(* Each specification leaves the variables of the others at their idle     *)
(* values.                                                                 *)
(***************************************************************************)
EXTENDS Integers, Sequences, FiniteSets, TLC

\* ------------------------------------------------------------------ bounds
\* number of markJobDone calls issued for one tracked run
MaxJobs == 3
\* largest counter value drawn for a statistics triple
MaxStat == 3
\* longest run history drawn for a budget check
MaxBudgetHist == 2
\* longest run history drawn for an admission evaluation
MaxHist == 3
\* creation times and window lower bounds range over 0..MaxTime
MaxTime == 2
\* runs created per campaign, queued first-stage jobs
MaxRuns == 2
MaxCreateJobs == 2
\* timer ticks of the scheduler
MaxTicks == 3
\* runs of a long-lived campaign beyond the page size of a list request
MaxBeyond == 2
\* page size of a list request (limit: 200 in getRunsForCampaign), scaled down
ListLimit == 3

\* --------------------------------------------------------------- constants
\* a key that does not exist in the counter store (redis GET returns null)
Absent == -1

VARIABLES
  \* --- run tracker (src/lib/run-tracker.ts)
  redis,      \* the three counters of the tracked run: key -> value or Absent
  ttl,        \* the keys of the tracked run that carry a time-to-live
  calls,      \* the markJobDone invocations: caller -> locals and position
  expected,   \* the count the tracking was initialised with
  cleanupPc,  \* position of cleanupRunTracking (end-run worker)
  \* --- end-run status determination
  stats,      \* the statistics triple handed to finalization
  endStatus,  \* the status written by the finalization, "none" before
  \* --- admission gate (src/schedulers/campaign-scheduler.ts)
  campaign,   \* the campaign record under evaluation
  calendar,   \* lower bounds of the daily, weekly and monthly windows
  history,    \* the campaign's runs in the run ledger, newest first
  env,        \* the outcome of each collaborator call of the evaluation
  budgetResult, \* result of isBudgetExceeded, called = FALSE before the call
  gateResult,   \* effects of shouldRunCampaign + the poller's enqueue
  retrigResult, \* effects of retriggerCampaignIfNeeded
  volumeResult, \* result of isVolumeExceeded, called = FALSE before the call
  \* --- the run pipeline (src/index.ts: scheduler + the seven workers)
  createQ,    \* number of waiting first-stage (create-run) jobs
  pipe,       \* run -> position of its stage jobs and event handlers
  runKeys,    \* run -> the three tracker counters of that run
  fin,        \* run -> number of finalize signals raised for it so far
  poll,       \* position of pollCampaigns and the run list it has read
  \* --- the scheduler's timer (startCampaignScheduler)
  isPolling,      \* the in-flight-poll flag
  isShuttingDown, \* the shutdown flag
  ticks,          \* timer tick -> position of its pollCampaigns call
  \* --- the resilient call clients (callService, runsRequest)
  http,       \* the call in progress: options, attempt, requests, waits
  \* --- one run walking through the stage workers, with its job payloads
  stg,        \* envelopes, answers and effects of the stages of that run
  \* --- the process (src/index.ts): startup guard, components, shutdown
  proc        \* environment, position, components, signal handlers, exit code

trackerVars == <<redis, ttl, calls, expected, cleanupPc>>
endRunVars == <<stats, endStatus>>
gateVars == <<campaign, calendar, history, env, budgetResult, gateResult, retrigResult,
             volumeResult>>
schedVars == <<isPolling, isShuttingDown, ticks>>
pipeVars == <<createQ, pipe, runKeys, fin, poll, schedVars>>
clientVars == <<http>>
stageVars == <<stg>>
procVars == <<proc>>
sideVars == <<clientVars, stageVars, procVars>>

\* ============================================================ run tracker
Keys == {"total", "done", "failed"}

\* redis.incr: a missing key counts as 0; the new value is returned
Incr(store, k) ==
  [store EXCEPT ![k] = IF store[k] = Absent THEN 1 ELSE store[k] + 1]

\* redis.incr leaves the time-to-live of the key as it is: an existing key
\* keeps its expiry, a key the command creates has none
IncrTtl(t, k) == t

\* parseInt(await redis.get(key) || "0", 10)
GetInt(store, k) == IF store[k] = Absent THEN 0 ELSE store[k]

\* initRunTracking: each SET carries EX TTL_SECONDS
InitRunTrackingTtl == Keys

\* initRunTracking: three SETs (total = totalJobs, done = 0, failed = 0)
InitRunTracking(totalJobs) ==
  [k \in Keys |-> IF k = "total" THEN totalJobs ELSE 0]

\* mutation: the comparison of done and total reversed
IsLastReversed(done, total) == done <= total /\ total > 0

\* const isLast = done >= total && total > 0
IsLast(done, total) == done >= total /\ total > 0

NoCall == [pc |-> "idle", success |-> TRUE, done |-> 0, total |-> 0,
           failed |-> 0, isLast |-> FALSE]

Callers == 1..MaxJobs

TrackerIdle ==
  /\ redis = [k \in Keys |-> Absent]
  /\ ttl = {}
  /\ calls = [i \in Callers |-> NoCall]
  /\ expected = 0
  /\ cleanupPc = "off"

\* the state right after initRunTracking(runId, n): n callers will each
\* call markJobDone once, with a success flag fixed by the job's outcome
TrackerInit ==
  /\ \E n \in 1..MaxJobs, ok \in [Callers -> BOOLEAN] :
       /\ expected = n
       /\ redis = InitRunTracking(n)
       /\ ttl = InitRunTrackingTtl
       /\ calls = [i \in Callers |->
                     IF i <= n THEN [NoCall EXCEPT !.pc = "start", !.success = ok[i]]
                     ELSE NoCall]
  /\ cleanupPc = "idle"

\* const done = await redis.incr(done key)
MarkIncrDone(i) ==
  /\ calls[i].pc = "start"
  /\ redis' = Incr(redis, "done")
  /\ ttl' = IncrTtl(ttl, "done")
  /\ calls' = [calls EXCEPT ![i].done = redis'["done"],
                            ![i].pc = IF calls[i].success THEN "getTotal" ELSE "incrFailed"]
  /\ UNCHANGED <<expected, cleanupPc>>

\* if (!success) await redis.incr(failed key)
MarkIncrFailed(i) ==
  /\ calls[i].pc = "incrFailed"
  /\ redis' = Incr(redis, "failed")
  /\ ttl' = IncrTtl(ttl, "failed")
  /\ calls' = [calls EXCEPT ![i].pc = "getTotal"]
  /\ UNCHANGED <<expected, cleanupPc>>

\* const total = parseInt(await redis.get(total key) || "0", 10)
MarkGetTotal(i) ==
  /\ calls[i].pc = "getTotal"
  /\ calls' = [calls EXCEPT ![i].total = GetInt(redis, "total"), ![i].pc = "getFailed"]
  /\ UNCHANGED <<redis, ttl, expected, cleanupPc>>

\* const failed = parseInt(await redis.get(failed key) || "0", 10);
\* isLast is computed and the snapshot returned
MarkGetFailed(i) ==
  /\ calls[i].pc = "getFailed"
  /\ calls' = [calls EXCEPT ![i].failed = GetInt(redis, "failed"),
                            ![i].isLast = IsLast(calls[i].done, calls[i].total),
                            ![i].pc = "returned"]
  /\ UNCHANGED <<redis, ttl, expected, cleanupPc>>

\* cleanupRunTracking, run by the end-run worker once a caller has reported
\* isLast: three DELs in this order, each its own await
CleanupOrder == <<"total", "done", "failed">>

CleanupStep ==
  /\ cleanupPc \in {"idle", "total", "done"}
  /\ \E i \in Callers : calls[i].pc = "returned" /\ calls[i].isLast
  /\ LET k == CASE cleanupPc = "idle" -> 1 [] cleanupPc = "total" -> 2 [] OTHER -> 3
     IN /\ redis' = [redis EXCEPT ![CleanupOrder[k]] = Absent]
        /\ ttl' = ttl \ {CleanupOrder[k]}
        /\ cleanupPc' = IF k = 3 THEN "finished" ELSE CleanupOrder[k]
  /\ UNCHANGED <<calls, expected>>

\* ============================================== end-run status determination
\* mutation: a run without sub-jobs treated as completed
FinalStatusNonEmpty(s) ==
  IF s.failed = s.total /\ s.total > 0 THEN "failed" ELSE "completed"

\* const status = stats.failed === stats.total ? "failed" : "completed"
FinalStatus(s) == IF s.failed = s.total THEN "failed" ELSE "completed"

NoEndStatus == [by |-> "none", status |-> "none"]

EndRunIdle ==
  /\ stats = [total |-> 0, done |-> 0, failed |-> 0]
  /\ endStatus = NoEndStatus

EndRunInit ==
  /\ stats \in [total : 0..MaxStat, done : 0..MaxStat, failed : 0..MaxStat]
  /\ endStatus = NoEndStatus

\* end-run worker: status computed from job.data.stats, then updateRun
EndRunWorkerStatus ==
  /\ endStatus.by = "none"
  /\ endStatus' = [by |-> "end-run", status |-> FinalStatus(stats)]
  /\ UNCHANGED stats

\* finalizeRun of the run tracker: same determination, then updateRun
FinalizeRunStatus ==
  /\ endStatus.by = "none"
  /\ endStatus' = [by |-> "finalizeRun", status |-> FinalStatus(stats)]
  /\ UNCHANGED stats

\* ========================================================= admission gate
\* a budget field that is null, undefined or "" (not configured)
NoLimit == -1
\* startedAfter: null of the total window
NullStart == -1

\* mutation: the windows are built in the opposite order
LabelsReversed == <<"total", "monthly", "weekly", "daily">>

Labels == <<"daily", "weekly", "monthly", "total">>

\* getBudgetWindows: one window per configured limit, in this fixed order
\* (cal gives the lower bounds computed from the current date)
WindowOf(c, cal, l) ==
  [label |-> l,
   startedAfter |-> IF l = "total" THEN NullStart ELSE cal[l],
   limitUsd |-> c.budget[l]]

RECURSIVE WindowsFrom(_, _, _)
WindowsFrom(c, cal, k) ==
  IF k > Len(Labels) THEN <<>>
  ELSE (IF c.budget[Labels[k]] # NoLimit
          THEN <<WindowOf(c, cal, Labels[k])>> ELSE <<>>)
       \o WindowsFrom(c, cal, k + 1)

GetBudgetWindows(c, cal) == WindowsFrom(c, cal, 1)

\* mutation: the reducer keeps the window with the later lower bound
BroaderReversed(a, b) ==
  IF a.startedAfter = NullStart THEN a
  ELSE IF b.startedAfter = NullStart THEN b
  ELSE IF a.startedAfter > b.startedAfter THEN a ELSE b

\* the reducer of windows.reduce((a, b) => ...)
Broader(a, b) ==
  IF a.startedAfter = NullStart THEN a
  ELSE IF b.startedAfter = NullStart THEN b
  ELSE IF a.startedAfter < b.startedAfter THEN a ELSE b

RECURSIVE ReduceBroadest(_, _, _)
ReduceBroadest(acc, ws, k) ==
  IF k > Len(ws) THEN acc ELSE ReduceBroadest(Broader(acc, ws[k]), ws, k + 1)

BroadestWindow(ws) == ReduceBroadest(ws[1], ws, 2)

\* mutation: a run created exactly at the lower bound left out
InWindowStrict(w, run) ==
  w.startedAfter = NullStart \/ run.createdAt > w.startedAfter

\* window.startedAfter === null || new Date(run.createdAt) >= window.startedAfter
InWindow(w, run) ==
  w.startedAfter = NullStart \/ run.createdAt >= w.startedAfter

RECURSIVE FilterRuns(_, _, _)
FilterRuns(rs, w, k) ==
  IF k > Len(rs) THEN <<>>
  ELSE (IF InWindow(w, rs[k]) THEN <<rs[k]>> ELSE <<>>) \o FilterRuns(rs, w, k + 1)

\* spendCents of one window over the runs returned by getRunsBatch
RECURSIVE SpendCents(_, _, _)
SpendCents(rs, w, k) ==
  IF k > Len(rs) THEN 0
  ELSE (IF InWindow(w, rs[k]) THEN rs[k].cost ELSE 0) + SpendCents(rs, w, k + 1)

\* spendUsd >= window.limitUsd with spendUsd = spendCents / 100
Exceeds(spendCents, limitUsd) == spendCents >= limitUsd * 100

NotExceeded == [exceeded |-> FALSE, which |-> "none", spendCents |-> 0, threw |-> FALSE]

RECURSIVE CheckWindows(_, _, _)
CheckWindows(ws, costed, k) ==
  IF k > Len(ws) THEN NotExceeded
  ELSE LET spend == SpendCents(costed, ws[k], 1)
       IN IF Exceeds(spend, ws[k].limitUsd)
            THEN [exceeded |-> TRUE, which |-> ws[k].label,
                  spendCents |-> spend, threw |-> FALSE]
            ELSE CheckWindows(ws, costed, k + 1)

\* mutation: a campaign without any limit passes the budget check
IsBudgetExceededFailOpen(c, allRuns, cal, batchOk) ==
  LET windows == GetBudgetWindows(c, cal)
  IN IF Len(windows) = 0 THEN NotExceeded
     ELSE LET runsInWindow == FilterRuns(allRuns, BroadestWindow(windows), 1)
          IN IF Len(runsInWindow) = 0 THEN NotExceeded
             ELSE IF ~batchOk
               THEN [exceeded |-> FALSE, which |-> "none", spendCents |-> 0, threw |-> TRUE]
             ELSE CheckWindows(windows, runsInWindow, 1)

\* isBudgetExceeded(campaign, allRuns); batchOk: getRunsBatch answers
IsBudgetExceeded(c, allRuns, cal, batchOk) ==
  LET windows == GetBudgetWindows(c, cal)
  IN IF Len(windows) = 0
       THEN [exceeded |-> TRUE, which |-> "total", spendCents |-> 0, threw |-> FALSE]
     ELSE LET runsInWindow == FilterRuns(allRuns, BroadestWindow(windows), 1)
          IN IF Len(runsInWindow) = 0 THEN NotExceeded
             ELSE IF ~batchOk
               THEN [exceeded |-> FALSE, which |-> "none", spendCents |-> 0, threw |-> TRUE]
             ELSE CheckWindows(windows, runsInWindow, 1)

\* If the last N consecutive runs all failed, pause the campaign
MAX_CONSECUTIVE_FAILURES == 3

\* countConsecutiveFailures: runs newest first, running skipped, the first
\* other non-failed run ends the streak
RECURSIVE CountFailuresFrom(_, _)
CountFailuresFrom(rs, k) ==
  IF k > Len(rs) THEN 0
  ELSE IF rs[k].status = "running" THEN CountFailuresFrom(rs, k + 1)
  ELSE IF rs[k].status = "failed" THEN 1 + CountFailuresFrom(rs, k + 1)
  ELSE 0

\* mutation: a run that did not fail does not end the streak
CountEveryFailure(rs) == Cardinality({k \in 1..Len(rs) : rs[k].status = "failed"})

countConsecutiveFailures(rs) == CountFailuresFrom(rs, 1)

RECURSIVE CountStatus(_, _, _)
CountStatus(rs, st, k) ==
  IF k > Len(rs) THEN 0
  ELSE (IF rs[k].status = st THEN 1 ELSE 0) + CountStatus(rs, st, k + 1)

HasRunning(rs) == \E k \in 1..Len(rs) : rs[k].status = "running"

MaxOf(a, b) == IF a >= b THEN a ELSE b

\* mutation: only the count reported by the lead service is compared
IsVolumeExceededReportedOnly(c, rs, st) ==
  IF c.maxLeads = 0 \/ ~c.hasBrand
    THEN [exceeded |-> FALSE, called |-> FALSE]
  ELSE CASE st.kind = "ok" -> [exceeded |-> st.totalServed >= c.maxLeads, called |-> TRUE]
         [] st.kind = "404" ->
              [exceeded |-> CountStatus(rs, "completed", 1) >= c.maxLeads, called |-> TRUE]
         [] OTHER -> [exceeded |-> TRUE, called |-> TRUE]

\* mutation: an unexpected error of the lead service lets the campaign run
IsVolumeExceededFailOpen(c, rs, st) ==
  IF c.maxLeads = 0 \/ ~c.hasBrand
    THEN [exceeded |-> FALSE, called |-> FALSE]
  ELSE CASE st.kind = "ok" ->
              [exceeded |-> MaxOf(st.totalServed, CountStatus(rs, "completed", 1)) >= c.maxLeads,
               called |-> TRUE]
         [] st.kind = "404" ->
              [exceeded |-> CountStatus(rs, "completed", 1) >= c.maxLeads, called |-> TRUE]
         [] OTHER -> [exceeded |-> FALSE, called |-> TRUE]

\* isVolumeExceeded(campaign, runs); st is the answer of leadService.getStats:
\* kind "ok" with totalServed, "404" (no stats yet) or "error" (anything else)
IsVolumeExceeded(c, rs, st) ==
  IF c.maxLeads = 0 \/ ~c.hasBrand
    THEN [exceeded |-> FALSE, called |-> FALSE]
  ELSE LET completedRunCount == CountStatus(rs, "completed", 1)
       IN CASE st.kind = "ok" ->
                 [exceeded |-> MaxOf(st.totalServed, completedRunCount) >= c.maxLeads,
                  called |-> TRUE]
            [] st.kind = "404" ->
                 [exceeded |-> completedRunCount >= c.maxLeads, called |-> TRUE]
            [] OTHER ->
                 [exceeded |-> TRUE, called |-> TRUE]

\* mutation: no stale run is reclaimed
ReclaimNone(rs, ok) == rs

\* stale-run cleanup of shouldRunCampaign: updateRun(run.id, "failed") for
\* every run read as running and older than STALE_RUN_TIMEOUT_MS; ok tells
\* whether the run ledger accepts the update
ReclaimStale(rs, ok) ==
  [k \in 1..Len(rs) |->
     IF rs[k].status = "running" /\ rs[k].stale /\ ok
       THEN [rs[k] EXCEPT !.status = "failed"] ELSE rs[k]]

AnyStale(rs) == \E k \in 1..Len(rs) : rs[k].status = "running" /\ rs[k].stale

\* mutation: every exceeded budget window stops the campaign
CascadeStopAnyWindow(c, rs, cal, e) ==
  LET b == IsBudgetExceeded(c, rs, cal, e.getRunsBatch)
      v == IsVolumeExceeded(c, rs, e.stats)
  IN IF b.threw
       THEN [admit |-> FALSE, stop |-> FALSE, threw |-> TRUE, failed |-> {"getRunsBatch"}]
     ELSE IF b.exceeded
       THEN [admit |-> FALSE, stop |-> TRUE, threw |-> FALSE, failed |-> {}]
     ELSE IF v.exceeded
       THEN [admit |-> FALSE, stop |-> TRUE, threw |-> FALSE,
             failed |-> IF v.called /\ e.stats.kind = "error" THEN {"getStats"} ELSE {}]
     ELSE IF countConsecutiveFailures(rs) >= MAX_CONSECUTIVE_FAILURES
       THEN [admit |-> FALSE, stop |-> TRUE, threw |-> FALSE, failed |-> {}]
     ELSE [admit |-> TRUE, stop |-> FALSE, threw |-> FALSE, failed |-> {}]

\* the budget / volume / failure-streak cascade shared in shape by
\* shouldRunCampaign (lines 157-202) and retriggerCampaignIfNeeded (386-407):
\* admit, or refuse with or without an updateCampaign(status: stopped);
\* failed = the collaborator calls that were issued and failed
Cascade(c, rs, cal, e) ==
  LET b == IsBudgetExceeded(c, rs, cal, e.getRunsBatch)
      v == IsVolumeExceeded(c, rs, e.stats)
  IN IF b.threw
       THEN [admit |-> FALSE, stop |-> FALSE, threw |-> TRUE, failed |-> {"getRunsBatch"}]
     ELSE IF b.exceeded
       THEN [admit |-> FALSE, stop |-> b.which = "total", threw |-> FALSE, failed |-> {}]
     ELSE IF v.exceeded
       THEN [admit |-> FALSE, stop |-> TRUE, threw |-> FALSE,
             failed |-> IF v.called /\ e.stats.kind = "error" THEN {"getStats"} ELSE {}]
     ELSE IF countConsecutiveFailures(rs) >= MAX_CONSECUTIVE_FAILURES
       THEN [admit |-> FALSE, stop |-> TRUE, threw |-> FALSE, failed |-> {}]
     ELSE [admit |-> TRUE, stop |-> FALSE, threw |-> FALSE, failed |-> {}]

Refused == [shouldRun |-> FALSE, hasRunningRun |-> FALSE, stop |-> FALSE]

\* mutation: the running-run test of the gate left out
AdmissionUnguarded(c, rs, cal, e) ==
  LET d == Cascade(c, rs, cal, e)
  IN [shouldRun |-> d.admit, hasRunningRun |-> FALSE, stop |-> d.stop,
      failed |-> d.failed]

\* shouldRunCampaign from the re-fetch on (lines 147-205); rs is the
\* re-fetched history
Admission(c, rs, cal, e) ==
  IF HasRunning(rs)
    THEN [shouldRun |-> FALSE, hasRunningRun |-> TRUE, stop |-> FALSE, failed |-> {}]
  ELSE LET d == Cascade(c, rs, cal, e)
       IN [shouldRun |-> d.admit, hasRunningRun |-> FALSE, stop |-> d.stop,
           failed |-> d.failed]

\* shouldRunCampaign(campaign) on ledger content rs: decision, stop request,
\* ledger after the stale-run cleanup, collaborator calls that failed
ShouldRunCampaign(c, rs, cal, e) ==
  IF ~e.listRuns1
    THEN Refused @@ [ledger |-> rs, failed |-> {"listRuns"}]
  ELSE LET after == ReclaimStale(rs, e.updateRun)
           f1 == IF AnyStale(rs) /\ ~e.updateRun THEN {"updateRun"} ELSE {}
       IN IF ~e.listRuns2
            THEN Refused @@ [ledger |-> after, failed |-> f1 \cup {"listRuns"}]
          ELSE LET a == Admission(c, after, cal, e)
               IN [shouldRun |-> a.shouldRun, hasRunningRun |-> a.hasRunningRun,
                   stop |-> a.stop, ledger |-> after, failed |-> f1 \cup a.failed]

\* mutation: the retrigger does not look at the campaign's status
RetriggerIgnoringStatus(c, rs, cal, e) ==
  IF ~e.getCampaign \/ ~e.listRuns1
    THEN [enqueue |-> FALSE, stop |-> FALSE]
  ELSE LET d == Cascade(c, rs, cal, e)
       IN [enqueue |-> d.admit, stop |-> d.stop]

\* retriggerCampaignIfNeeded on the campaign as returned by getCampaign and
\* ledger content rs: whether a first-stage job is added, whether a stop is
\* requested
RetriggerCampaignIfNeeded(c, rs, cal, e) ==
  IF ~e.getCampaign \/ c.status # "ongoing" \/ ~e.listRuns1
    THEN [enqueue |-> FALSE, stop |-> FALSE]
  ELSE LET d == Cascade(c, rs, cal, e)
       IN [enqueue |-> d.admit, stop |-> d.stop]

\* ------------------------------------------------ inputs of the gate specs
LabelSet == {"daily", "weekly", "monthly", "total"}
Times == 0..MaxTime
\* run costs in cents, budget limits in whole USD
CostVals == {0, 60, 100}
LimitVals == {0, 1}

\* lower bounds the clock can produce: the weekly bound (now - 7 days) lies
\* before today's midnight, the first of the month at or before it
Calendars ==
  {cal \in [{"daily", "weekly", "monthly"} -> Times] :
     cal["weekly"] < cal["daily"] /\ cal["monthly"] <= cal["daily"]}

\* the run ledger lists runs newest first
NewestFirst(rs) == \A k \in 1..(Len(rs) - 1) : rs[k].createdAt >= rs[k + 1].createdAt

SeqsUpTo(S, n) == UNION {[1..m -> S] : m \in 0..n}

AllOk == [listRuns1 |-> TRUE, updateRun |-> TRUE, listRuns2 |-> TRUE,
          getRunsBatch |-> TRUE, getCampaign |-> TRUE,
          stats |-> [kind |-> "404", totalServed |-> 0]]

NoBudgetResult == [called |-> FALSE, exceeded |-> FALSE, which |-> "none",
                   spendCents |-> 0, threw |-> FALSE]
NoGateResult == [called |-> FALSE, evaluated |-> FALSE, shouldRun |-> FALSE,
                 hasRunningRun |-> FALSE, stop |-> FALSE, enqueued |-> FALSE,
                 failed |-> {}, ledger |-> <<>>]
NoVolumeResult == [called |-> FALSE, exceeded |-> FALSE, asked |-> FALSE]
NoRetrigResult == [called |-> FALSE, enqueue |-> FALSE, stop |-> FALSE]

GateIdle ==
  /\ campaign = [status |-> "ongoing", budget |-> [l \in LabelSet |-> NoLimit],
                 maxLeads |-> 0, hasBrand |-> FALSE]
  /\ calendar = [daily |-> 1, weekly |-> 0, monthly |-> 0]
  /\ history = <<>>
  /\ env = AllOk
  /\ budgetResult = NoBudgetResult
  /\ gateResult = NoGateResult
  /\ retrigResult = NoRetrigResult
  /\ volumeResult = NoVolumeResult

\* ---------------------------------------------------------------- SpecBudget
BudgetRuns == [status : {"completed"}, stale : {FALSE}, createdAt : Times, cost : CostVals]

BudgetInit ==
  /\ campaign \in [status : {"ongoing"}, budget : [LabelSet -> LimitVals \cup {NoLimit}],
                   maxLeads : {0}, hasBrand : {FALSE}]
  /\ calendar \in Calendars
  /\ history \in {rs \in SeqsUpTo(BudgetRuns, MaxBudgetHist) : NewestFirst(rs)}
  /\ env \in {[AllOk EXCEPT !.getRunsBatch = b] : b \in BOOLEAN}
  \* the costs are the answer of getRunsBatch: a failed request carries none
  /\ ~env.getRunsBatch => \A k \in 1..Len(history) : history[k].cost = 0
  /\ budgetResult = NoBudgetResult
  /\ gateResult = NoGateResult
  /\ retrigResult = NoRetrigResult
  /\ volumeResult = NoVolumeResult

\* one call of isBudgetExceeded(campaign, runs)
CheckBudget ==
  /\ ~budgetResult.called
  /\ budgetResult' = [called |-> TRUE] @@ IsBudgetExceeded(campaign, history, calendar, env.getRunsBatch)
  /\ UNCHANGED <<campaign, calendar, history, env, gateResult, retrigResult, volumeResult>>

\* ---------------------------------------------------------------- SpecLedger
\* getRunsForCampaign asks the run ledger for one page: listRuns({ ..., limit }),
\* without offset and without a second request
\* the runs one list request returns: the first ListLimit runs in the order of
\* the ledger
GetRunsForCampaign(ledger) ==
  IF Len(ledger) <= ListLimit THEN ledger ELSE SubSeq(ledger, 1, ListLimit)

\* a campaign with a lifetime limit only, and a ledger of n runs, up to more
\* than one page; the run at position p has cost c, all others cost nothing
LedgerInit ==
  /\ \E lim \in {1, 2} :
       campaign = [status |-> "ongoing",
                   budget |-> [l \in LabelSet |-> IF l = "total" THEN lim ELSE NoLimit],
                   maxLeads |-> 0, hasBrand |-> FALSE]
  /\ calendar = [daily |-> 1, weekly |-> 0, monthly |-> 0]
  /\ \E n \in 1..(ListLimit + MaxBeyond), c \in CostVals :
       \E p \in 1..n :
         history = [k \in 1..n |->
                      [status |-> "completed", stale |-> FALSE, createdAt |-> 1,
                       cost |-> IF k = p THEN c ELSE 0]]
  /\ env = AllOk
  /\ budgetResult = NoBudgetResult
  /\ gateResult = NoGateResult
  /\ retrigResult = NoRetrigResult
  /\ volumeResult = NoVolumeResult

\* the budget check as both callers make it: on the runs getRunsForCampaign
\* returned
CheckListedBudget ==
  /\ ~budgetResult.called
  /\ budgetResult' = [called |-> TRUE] @@
       IsBudgetExceeded(campaign, GetRunsForCampaign(history), calendar, env.getRunsBatch)
  /\ UNCHANGED <<campaign, calendar, history, env, gateResult, retrigResult, volumeResult>>

\* ---------------------------------------------------------------- SpecVolume
VolumeRuns == [status : {"running", "completed", "failed"}, stale : {FALSE},
               createdAt : {1}, cost : {0}]

VolumeStats ==
  {[kind |-> "ok", totalServed |-> n] : n \in 0..MaxHist}
    \cup {[kind |-> k, totalServed |-> 0] : k \in {"404", "error"}}

VolumeInit ==
  /\ campaign \in [status : {"ongoing"},
                   budget : {[l \in LabelSet |-> IF l = "daily" THEN 1 ELSE NoLimit]},
                   maxLeads : 0..2, hasBrand : BOOLEAN]
  /\ calendar = [daily |-> 1, weekly |-> 0, monthly |-> 0]
  /\ history \in SeqsUpTo(VolumeRuns, MaxHist)
  /\ env \in {[AllOk EXCEPT !.stats = st] : st \in VolumeStats}
  /\ budgetResult = NoBudgetResult
  /\ gateResult = NoGateResult
  /\ retrigResult = NoRetrigResult
  /\ volumeResult = NoVolumeResult

\* one call of isVolumeExceeded(campaign, runs)
CheckVolume ==
  /\ ~volumeResult.called
  /\ LET v == IsVolumeExceeded(campaign, history, env.stats)
     IN volumeResult' = [called |-> TRUE, exceeded |-> v.exceeded, asked |-> v.called]
  /\ UNCHANGED <<campaign, calendar, history, env, budgetResult, gateResult, retrigResult>>

\* ------------------------------------------------------------------ SpecGate
\* runs of the evaluated campaign: all created today, a cost of 0 or 1 USD;
\* stale marks a run created more than STALE_RUN_TIMEOUT_MS ago
GateRuns ==
  {r \in [status : {"running", "completed", "failed"}, stale : BOOLEAN,
          createdAt : {1}, cost : {0, 100}] : r.stale => r.status = "running"}

\* budget configurations: a daily limit of 1 USD, a total limit of 2 USD, none
GateBudgets ==
  {[l \in LabelSet |-> IF l = "daily" THEN 1 ELSE NoLimit],
   [l \in LabelSet |-> IF l = "total" THEN 2 ELSE NoLimit],
   [l \in LabelSet |-> NoLimit]}

GateCampaigns ==
  {c \in [status : {"ongoing", "stopped"}, budget : GateBudgets,
          maxLeads : {0, 2}, hasBrand : BOOLEAN] :
     /\ c.maxLeads = 0 => c.hasBrand
     /\ c.status = "stopped" => (c.maxLeads = 0 /\ c.budget["daily"] = 1)}

\* answers of leadService.getStats
StatsAnswers ==
  {[kind |-> "ok", totalServed |-> n] : n \in {0, 2}}
    \cup {[kind |-> k, totalServed |-> 0] : k \in {"404", "error"}}

\* at most one of the run-ledger calls of an evaluation fails
GateEnvs ==
  {e \in [listRuns1 : BOOLEAN, updateRun : BOOLEAN, listRuns2 : BOOLEAN,
          getRunsBatch : BOOLEAN, getCampaign : {TRUE}, stats : StatsAnswers] :
     Cardinality({f \in {"listRuns1", "updateRun", "listRuns2", "getRunsBatch"} : ~e[f]}) <= 1}

GateInit ==
  /\ campaign \in GateCampaigns
  /\ calendar = [daily |-> 1, weekly |-> 0, monthly |-> 0]
  /\ history \in SeqsUpTo(GateRuns, MaxHist)
  /\ env \in GateEnvs
  \* getStats is requested only for a campaign with maxLeads and a brand
  /\ (campaign.maxLeads = 0 \/ ~campaign.hasBrand) => env.stats.kind = "404"
  /\ budgetResult = NoBudgetResult
  /\ gateResult = NoGateResult
  /\ retrigResult = NoRetrigResult
  /\ volumeResult = NoVolumeResult

\* ------------------------------------------------------------------ SpecStop
\* budget configurations of the stop rule: those of the gate, and a daily and
\* a total limit of 1 USD each
StopBudgets ==
  GateBudgets \cup {[l \in LabelSet |-> IF l \in {"daily", "total"} THEN 1 ELSE NoLimit]}

\* an ongoing campaign without volume limit, every collaborator answering
StopInit ==
  /\ campaign \in [status : {"ongoing"}, budget : StopBudgets, maxLeads : {0},
                   hasBrand : {TRUE}]
  /\ calendar = [daily |-> 1, weekly |-> 0, monthly |-> 0]
  /\ history \in SeqsUpTo(GateRuns, MaxHist)
  /\ env = AllOk
  /\ budgetResult = NoBudgetResult
  /\ gateResult = NoGateResult
  /\ retrigResult = NoRetrigResult
  /\ volumeResult = NoVolumeResult

\* one iteration of the poller's loop over the listed campaigns (lines 69-94):
\* only an ongoing campaign is evaluated; the first-stage job is added when
\* the gate says shouldRun and not hasRunningRun
PollEvaluate ==
  /\ ~gateResult.called
  /\ gateResult' =
       IF campaign.status = "ongoing"
         THEN LET r == ShouldRunCampaign(campaign, history, calendar, env)
              IN [called |-> TRUE, evaluated |-> TRUE, shouldRun |-> r.shouldRun,
                  hasRunningRun |-> r.hasRunningRun, stop |-> r.stop,
                  enqueued |-> ~r.hasRunningRun /\ r.shouldRun,
                  failed |-> r.failed, ledger |-> r.ledger]
         ELSE [NoGateResult EXCEPT !.called = TRUE, !.ledger = history]
  /\ UNCHANGED <<campaign, calendar, history, env, budgetResult, retrigResult, volumeResult>>

\* one call of retriggerCampaignIfNeeded on the same campaign and ledger
Retrigger ==
  /\ ~retrigResult.called
  /\ retrigResult' =
       [called |-> TRUE] @@ RetriggerCampaignIfNeeded(campaign, history, calendar, env)
  /\ UNCHANGED <<campaign, calendar, history, env, budgetResult, gateResult, volumeResult>>

\* ============================================================ run pipeline
\* One campaign; its runs are numbered in creation order, the ledger
\* (history) lists them newest first.
RunIds == 1..MaxRuns

Pos(h, r) == Len(h) - r + 1

RunStatus(h, r) == h[Pos(h, r)].status

\* updateRun(runId, status) accepted by the run ledger; staleness is a
\* property of running runs only
SetRunStatus(h, r, st) == [h EXCEPT ![Pos(h, r)] = [@ EXCEPT !.status = st, !.stale = FALSE]]

ZeroStats == [total |-> 0, done |-> 0, failed |-> 0]

NoPipe == [stage |-> "none", gen |-> "none", genOk |-> TRUE, genRes |-> ZeroStats,
           send |-> "none", sendOk |-> TRUE, end |-> "none", endStats |-> ZeroStats]

NoKeys == [k \in Keys |-> Absent]

\* the runs a list read shows as running and older than STALE_RUN_TIMEOUT_MS
StaleRunning(h) ==
  {r \in 1..Len(h) : h[Pos(h, r)].status = "running" /\ h[Pos(h, r)].stale}

\* collaborator answers of the gate inside the pipeline: every read succeeds,
\* the lead service has no stats for the brand (404)
PipeEnv == AllOk

PipeCampaigns ==
  {[status |-> "ongoing",
    budget |-> [l \in LabelSet |-> IF l = "daily" THEN 1 ELSE NoLimit],
    maxLeads |-> m, hasBrand |-> TRUE] : m \in {0, 1}}

TickIds == 1..MaxTicks

NoTick == [pc |-> "off", listed |-> FALSE, evaluated |-> FALSE, enqueued |-> FALSE,
           error |-> "none"]

SchedIdle ==
  /\ isPolling = FALSE
  /\ isShuttingDown = FALSE
  /\ ticks = [i \in TickIds |-> NoTick]

PipeQuiet ==
  /\ createQ = 0
  /\ pipe = [r \in RunIds |-> NoPipe]
  /\ runKeys = [r \in RunIds |-> NoKeys]
  /\ fin = [r \in RunIds |-> 0]
  /\ poll = [pc |-> "idle", staleSeen |-> {}]

PipeIdle == PipeQuiet /\ SchedIdle

PipeInit ==
  /\ PipeIdle
  /\ campaign \in PipeCampaigns
  /\ calendar = [daily |-> 1, weekly |-> 0, monthly |-> 0]
  /\ history = <<>>
  /\ env = PipeEnv
  /\ budgetResult = NoBudgetResult
  /\ gateResult = NoGateResult
  /\ retrigResult = NoRetrigResult
  /\ volumeResult = NoVolumeResult

\* markJobDone(runId, success) on the counters of one run, taken as one step
MarkJobDone(store, success) ==
  LET s1 == Incr(store, "done")
      s2 == IF success THEN s1 ELSE Incr(s1, "failed")
      done == s2["done"]
      total == GetInt(s2, "total")
      failed == GetInt(s2, "failed")
  IN [store |-> s2, isLast |-> IsLast(done, total),
      res |-> [total |-> total, done |-> done, failed |-> failed]]

\* finalizeRun(runId, stats) as one step: updateRun, then the three DELs;
\* a failing updateRun is swallowed and skips the DELs
FinalizeRun(r, st, updOk) ==
  /\ history' = IF updOk THEN SetRunStatus(history, r, FinalStatus(st)) ELSE history
  /\ runKeys' = IF updOk THEN [runKeys EXCEPT ![r] = NoKeys] ELSE runKeys

\* the effects of retriggerCampaignIfNeeded on the campaign and the
\* first-stage queue
RetriggerEffect ==
  LET d == RetriggerCampaignIfNeeded(campaign, history, calendar, env)
  IN /\ d.enqueue => createQ < MaxCreateJobs
     /\ createQ' = IF d.enqueue THEN createQ + 1 ELSE createQ
     /\ campaign' = IF d.stop THEN [campaign EXCEPT !.status = "stopped"] ELSE campaign

\* ------------------------------------------------------------- the poller
\* pollCampaigns up to the first listRuns of shouldRunCampaign: the isPolling
\* flag admits one tick at a time, only an ongoing campaign is evaluated
PollList ==
  /\ poll.pc = "idle"
  /\ campaign.status = "ongoing"
  /\ poll' = [pc |-> "listed", staleSeen |-> StaleRunning(history)]
  /\ UNCHANGED <<campaign, history, createQ, pipe, runKeys, fin>>

\* the stale-run cleanup: updateRun(id, "failed") for each run the list read
\* showed as running and stale; each update may be refused (try/catch)
PollReclaim ==
  /\ poll.pc = "listed"
  /\ poll.staleSeen # {}
  /\ \E okFor \in SUBSET poll.staleSeen :
       history' =
         [k \in 1..Len(history) |->
            IF (Len(history) - k + 1) \in okFor
              THEN [history[k] EXCEPT !.status = "failed", !.stale = FALSE]
              ELSE history[k]]
  /\ poll' = [pc |-> "reclaimed", staleSeen |-> {}]
  /\ UNCHANGED <<campaign, createQ, pipe, runKeys, fin>>

\* the re-fetch, the decision and the poller's enqueue; a failing re-fetch
\* ends the evaluation with a refusal
PollDecide ==
  /\ \/ poll.pc = "reclaimed"
     \/ poll.pc = "listed" /\ poll.staleSeen = {}
  /\ \E listOk \in BOOLEAN :
       IF ~listOk
         THEN UNCHANGED <<campaign, createQ>>
         ELSE LET a == Admission(campaign, history, calendar, env)
                  enq == a.shouldRun /\ ~a.hasRunningRun
              IN /\ enq => createQ < MaxCreateJobs
                 /\ createQ' = IF enq THEN createQ + 1 ELSE createQ
                 /\ campaign' = IF a.stop THEN [campaign EXCEPT !.status = "stopped"]
                                ELSE campaign
  /\ poll' = [pc |-> "idle", staleSeen |-> {}]
  /\ UNCHANGED <<history, pipe, runKeys, fin>>

\* the clock: a run that is still running passes STALE_RUN_TIMEOUT_MS
RunAges(r) ==
  /\ r <= Len(history)
  /\ RunStatus(history, r) = "running"
  /\ ~history[Pos(history, r)].stale
  /\ history' = [history EXCEPT ![Pos(history, r)].stale = TRUE]
  /\ UNCHANGED <<campaign, createQ, pipe, runKeys, fin, poll>>

\* ------------------------------------------------------ stages before fan-out
\* create-run worker (concurrency 1): createRun, then add get-campaign-info
CreateRunJob ==
  /\ createQ > 0
  /\ Len(history) < MaxRuns
  /\ createQ' = createQ - 1
  /\ LET r == Len(history) + 1
         run == [status |-> "running", stale |-> FALSE, createdAt |-> 1, cost |-> 0]
     IN \E outcome \in {"ok", "createFails", "addFails"} :
          CASE outcome = "createFails" -> UNCHANGED <<history, pipe>>
            [] outcome = "addFails" ->
                 /\ history' = <<run>> \o history
                 /\ pipe' = [pipe EXCEPT ![r].stage = "dropped"]
            [] OTHER ->
                 /\ history' = <<run>> \o history
                 /\ pipe' = [pipe EXCEPT ![r].stage = "info"]
  /\ UNCHANGED <<campaign, runKeys, fin, poll>>

\* get-campaign-info: on success add get-brand-sales-profile; the failed
\* handler adds an end-run job with zero stats
GetCampaignInfoJob(r) ==
  /\ pipe[r].stage = "info"
  /\ \E ok \in BOOLEAN :
       IF ok
         THEN /\ pipe' = [pipe EXCEPT ![r].stage = "profile"]
              /\ UNCHANGED fin
         ELSE /\ pipe' = [pipe EXCEPT ![r].stage = "dropped", ![r].end = "queued",
                                      ![r].endStats = ZeroStats]
              /\ fin' = [fin EXCEPT ![r] = @ + 1]
  /\ UNCHANGED <<campaign, history, createQ, runKeys, poll>>

\* get-brand-sales-profile: a failing profile fetch falls back to the domain
\* name; only a failing add fails the job, whose handler calls finalizeRun
\* with zero stats
GetBrandSalesProfileJob(r) ==
  /\ pipe[r].stage = "profile"
  /\ \E ok \in BOOLEAN :
       IF ok
         THEN /\ pipe' = [pipe EXCEPT ![r].stage = "leads"]
              /\ UNCHANGED <<history, runKeys, fin>>
         ELSE /\ pipe' = [pipe EXCEPT ![r].stage = "dropped"]
              /\ fin' = [fin EXCEPT ![r] = @ + 1]
              /\ \E updOk \in BOOLEAN : FinalizeRun(r, ZeroStats, updOk)
  /\ UNCHANGED <<campaign, createQ, poll>>

\* get-campaign-leads: one lead is pulled from the buffer; with a lead the
\* tracking is initialised with 1 and the generate job added, without one
\* (or on failure, through the failed handler) finalizeRun with zero stats
GetCampaignLeadsJob(r) ==
  /\ pipe[r].stage = "leads"
  /\ \E outcome \in {"lead", "none", "fail"} :
       IF outcome = "lead"
         THEN /\ runKeys' = [runKeys EXCEPT ![r] = InitRunTracking(1)]
              /\ pipe' = [pipe EXCEPT ![r].stage = "fanout", ![r].gen = "queued"]
              /\ UNCHANGED <<history, fin>>
         ELSE /\ pipe' = [pipe EXCEPT ![r].stage = "dropped"]
              /\ fin' = [fin EXCEPT ![r] = @ + 1]
              /\ \E updOk \in BOOLEAN : FinalizeRun(r, ZeroStats, updOk)
  /\ UNCHANGED <<campaign, createQ, poll>>

\* ------------------------------------------------------------------ fan-out
\* email-generate processor: on success the email-send job is added; the
\* completed or failed handler runs afterwards
EmailGenerateJob(r) ==
  /\ pipe[r].gen = "queued"
  /\ \E ok \in BOOLEAN :
       pipe' = [pipe EXCEPT ![r].gen = "handler", ![r].genOk = ok,
                            ![r].send = IF ok THEN "queued" ELSE @]
  /\ UNCHANGED <<campaign, history, createQ, runKeys, fin, poll>>

\* email-generate completed / failed handler: markJobDone, then on isLast
\* finalizeRun and retriggerCampaignIfNeeded
GenerateHandlerMark(r) ==
  /\ pipe[r].gen = "handler"
  /\ LET m == MarkJobDone(runKeys[r], pipe[r].genOk)
     IN /\ runKeys' = [runKeys EXCEPT ![r] = m.store]
        /\ pipe' = [pipe EXCEPT ![r].gen = IF m.isLast THEN "update" ELSE "done",
                                ![r].genOk = TRUE,
                                ![r].genRes = IF m.isLast THEN m.res ELSE @]
        /\ fin' = [fin EXCEPT ![r] = IF m.isLast THEN @ + 1 ELSE @]
  /\ UNCHANGED <<campaign, history, createQ, poll>>

\* finalizeRun of the handler, first await: updateRun; an error is swallowed
\* and skips the deletion of the counters
GenerateFinalizeUpdate(r) ==
  /\ pipe[r].gen = "update"
  /\ \E updOk \in BOOLEAN :
       IF updOk
         THEN /\ history' = SetRunStatus(history, r, FinalStatus(pipe[r].genRes))
              /\ pipe' = [pipe EXCEPT ![r].gen = "del", ![r].genRes = ZeroStats]
         ELSE /\ pipe' = [pipe EXCEPT ![r].gen = "retrigger", ![r].genRes = ZeroStats]
              /\ UNCHANGED history
  /\ UNCHANGED <<campaign, createQ, runKeys, fin, poll>>

\* finalizeRun of the handler, the three DELs
GenerateFinalizeDel(r) ==
  /\ pipe[r].gen = "del"
  /\ runKeys' = [runKeys EXCEPT ![r] = NoKeys]
  /\ pipe' = [pipe EXCEPT ![r].gen = "retrigger"]
  /\ UNCHANGED <<campaign, history, createQ, fin, poll>>

\* the handler's retriggerCampaignIfNeeded
GenerateRetrigger(r) ==
  /\ pipe[r].gen = "retrigger"
  /\ RetriggerEffect
  /\ pipe' = [pipe EXCEPT ![r].gen = "done"]
  /\ UNCHANGED <<history, runKeys, fin, poll>>

\* email-send processor: delivery succeeds (or is skipped) or throws
EmailSendJob(r) ==
  /\ pipe[r].send = "queued"
  /\ \E ok \in BOOLEAN :
       pipe' = [pipe EXCEPT ![r].send = "handler", ![r].sendOk = ok]
  /\ UNCHANGED <<campaign, history, createQ, runKeys, fin, poll>>

\* email-send completed / failed handler: markJobDone, then on isLast an
\* end-run job carrying the stats
SendHandler(r) ==
  /\ pipe[r].send = "handler"
  /\ LET m == MarkJobDone(runKeys[r], pipe[r].sendOk)
     IN /\ runKeys' = [runKeys EXCEPT ![r] = m.store]
        /\ pipe' = [pipe EXCEPT ![r].send = "done", ![r].sendOk = TRUE,
                                ![r].end = IF m.isLast THEN "queued" ELSE @,
                                ![r].endStats = IF m.isLast THEN m.res ELSE @]
        /\ fin' = [fin EXCEPT ![r] = IF m.isLast THEN @ + 1 ELSE @]
  /\ UNCHANGED <<campaign, history, createQ, poll>>

\* ------------------------------------------------------------------ end-run
\* end-run worker, first await: updateRun(runId, status); an error fails the
\* job (no retry is configured, the failed handler only logs)
EndRunUpdate(r) ==
  /\ pipe[r].end = "queued"
  /\ \E updOk \in BOOLEAN :
       IF updOk
         THEN /\ history' = SetRunStatus(history, r, FinalStatus(pipe[r].endStats))
              /\ pipe' = [pipe EXCEPT ![r].end = "cleanup", ![r].endStats = ZeroStats]
         ELSE /\ pipe' = [pipe EXCEPT ![r].end = "failed", ![r].endStats = ZeroStats]
              /\ UNCHANGED history
  /\ UNCHANGED <<campaign, createQ, runKeys, fin, poll>>

\* end-run worker, rest: cleanupRunTracking and retriggerCampaignIfNeeded
EndRunFinish(r) ==
  /\ pipe[r].end = "cleanup"
  /\ runKeys' = [runKeys EXCEPT ![r] = NoKeys]
  /\ RetriggerEffect
  /\ pipe' = [pipe EXCEPT ![r].end = "done"]
  /\ UNCHANGED <<history, fin, poll>>

\* ---------------------------------------------------------------- SpecPoller
\* The timer of startCampaignScheduler: the immediate call and the interval
\* calls of pollCampaigns, each a tick; one campaign is listed.
PollerHistories ==
  {<<>>} \cup {<<r>> : r \in {g \in GateRuns : g.cost = 0 \/ g.status = "completed"}}

PollerInit ==
  /\ PipeQuiet
  /\ isPolling = FALSE
  /\ isShuttingDown = FALSE
  /\ ticks = [i \in TickIds |-> [NoTick EXCEPT !.pc = "pending"]]
  /\ campaign \in {c \in GateCampaigns : c.maxLeads = 0 /\ c.budget["daily"] = 1}
  /\ calendar = [daily |-> 1, weekly |-> 0, monthly |-> 0]
  /\ history \in PollerHistories
  /\ env \in {AllOk, [AllOk EXCEPT !.listRuns1 = FALSE]}
  /\ budgetResult = NoBudgetResult
  /\ gateResult = NoGateResult
  /\ retrigResult = NoRetrigResult
  /\ volumeResult = NoVolumeResult

\* mutation: the tick does not look at the in-flight-poll flag
TickFiresUnguarded(i) ==
  /\ ticks[i].pc = "pending"
  /\ IF isShuttingDown
       THEN ticks' = [ticks EXCEPT ![i].pc = "skipped"] /\ UNCHANGED isPolling
       ELSE ticks' = [ticks EXCEPT ![i].pc = "listing"] /\ isPolling' = TRUE
  /\ UNCHANGED <<isShuttingDown, campaign, history, createQ>>

\* pollCampaigns up to its first await: return at once when shutting down or
\* when a poll is in flight, else raise the flag and call listCampaigns
TickFires(i) ==
  /\ ticks[i].pc = "pending"
  /\ IF isShuttingDown \/ isPolling
       THEN ticks' = [ticks EXCEPT ![i].pc = "skipped"] /\ UNCHANGED isPolling
       ELSE ticks' = [ticks EXCEPT ![i].pc = "listing"] /\ isPolling' = TRUE
  /\ UNCHANGED <<isShuttingDown, campaign, history, createQ>>

\* mutation: the flag is lowered at the end of the try block, not in finally
FlagAfterPollNoFinally(thrown) == thrown

\* finally { isPolling = false }: the flag after the poll, thrown or not
FlagAfterPoll(thrown) == FALSE

\* listCampaigns answers or throws; a throw is caught and the finally block
\* lowers the flag
TickLists(i) ==
  /\ ticks[i].pc = "listing"
  /\ \E ok \in BOOLEAN :
       IF ok
         THEN ticks' = [ticks EXCEPT ![i].pc = "evaluating", ![i].listed = TRUE]
              /\ UNCHANGED isPolling
         ELSE ticks' = [ticks EXCEPT ![i].pc = "finished", ![i].error = "listCampaigns"]
              /\ isPolling' = FlagAfterPoll(TRUE)
  /\ UNCHANGED <<isShuttingDown, campaign, history, createQ>>

\* the loop over the ongoing campaigns of the list, then the finally block.
\* shouldRunCampaign catches the errors of its collaborators and answers with
\* a refusal; a rejected add of the first-stage job is thrown to the catch
\* block of the poll
TickEvaluates(i) ==
  /\ ticks[i].pc = "evaluating"
  /\ IF campaign.status = "ongoing"
       THEN LET r == ShouldRunCampaign(campaign, history, calendar, env)
                enq == r.shouldRun /\ ~r.hasRunningRun
            IN \E addOk \in BOOLEAN :
                 /\ ~enq => addOk
                 /\ enq => createQ < MaxTicks
                 /\ createQ' = IF enq /\ addOk THEN createQ + 1 ELSE createQ
                 /\ history' = r.ledger
                 /\ campaign' = IF r.stop THEN [campaign EXCEPT !.status = "stopped"]
                                ELSE campaign
                 /\ ticks' = [ticks EXCEPT
                      ![i].pc = "finished", ![i].evaluated = TRUE,
                      ![i].enqueued = enq /\ addOk,
                      ![i].error = IF ~addOk THEN "add"
                                   ELSE IF r.failed # {} THEN "shouldRunCampaign"
                                   ELSE "none"]
                 /\ isPolling' = FlagAfterPoll(~addOk)
       ELSE /\ ticks' = [ticks EXCEPT ![i].pc = "finished"]
            /\ UNCHANGED <<createQ, history, campaign>>
            /\ isPolling' = FlagAfterPoll(FALSE)
  /\ UNCHANGED isShuttingDown

\* stopCampaignScheduler (SIGTERM / SIGINT)
StopCampaignScheduler ==
  /\ ~isShuttingDown
  /\ isShuttingDown' = TRUE
  /\ UNCHANGED <<isPolling, ticks, campaign, history, createQ>>

\* ================================================== one run, with payloads
\* SpecStages follows the first run of a campaign from its get-campaign-info
\* job to its finalization, with the envelopes the stages hand to each other;
\* the poller is absent. The stages after the fan-out are the actions of the
\* pipeline above.
Missing == [kind |-> "missing", host |-> <<>>]

\* brand URLs: text that new URL() rejects, and URLs with their host labels
BrandUrls ==
  {[kind |-> "invalid", host |-> <<>>]} \cup
  {[kind |-> "url", host |-> h] :
     h \in {<<"acme", "com">>, <<"www", "acme", "com">>, <<"WWW", "Acme", "com">>,
            <<"www", "www", "acme", "com">>, <<"www">>}}

BrandIds == {"brand-1", "brand-2"}

\* the URL parser lower-cases the host
Lower(l) == CASE l = "WWW" -> "www" [] l = "Acme" -> "acme" [] OTHER -> l

\* new URL(brandUrl).hostname
Hostname(u) == [k \in 1..Len(u.host) |-> Lower(u.host[k])]

\* mutation: the host kept as it is
KeepWww(h) == h

\* .replace(/^www\./, ''): one leading "www." is removed
StripWww(h) == IF Len(h) > 1 /\ h[1] = "www" THEN Tail(h) ELSE h

BrandDomain(u) == StripWww(Hostname(u))

\* campaign.brandUrl || campaign.requestRaw?.brandUrl
OrElse(a, b) == IF a.kind # "missing" THEN a ELSE b

\* the answers of brandService.getSalesProfile: the call fails, the answer
\* has no profile, a profile without a company name, a profile with one
ProfileAnswers == {"fails", "noProfile", "unnamed", "named"}

ProfileName == <<"Acme Inc">>

\* clientData as built by the get-brand-sales-profile processor
ClientData(brandUrl, answer) ==
  [companyName |-> IF answer = "named" THEN ProfileName ELSE BrandDomain(brandUrl),
   brandUrl |-> brandUrl,
   hasProfile |-> answer \in {"unnamed", "named"}]

\* the answers of leadService.next: { found, lead?: { data: { email? } } }
LeadAnswers == [found : BOOLEAN, hasLead : BOOLEAN, hasEmail : BOOLEAN]

NoLeadAnswer == [found |-> FALSE, hasLead |-> FALSE, hasEmail |-> FALSE]

\* mutation: every found lead is kept
JobsForAnyLead(a) == IF a.found /\ a.hasLead THEN 1 ELSE 0

\* jobs.length: leads.filter((lead) => lead.data?.email) of the one pulled lead
JobsFor(a) == IF a.found /\ a.hasLead /\ a.hasEmail THEN 1 ELSE 0

\* the payloads of emailSendingService.send: { success, error? }
SendPayloads == [success : BOOLEAN, error : {"absent", "", "X"}]

NoPayload == [success |-> TRUE, error |-> "absent"]

\* mutation: the payload is not looked at
SendFailsNever(p) == FALSE

\* if (!result.success) throw ...
SendFails(p) == ~p.success

\* `Email sending service returned failure: ${result.error || "unknown error"}`
SendErrorMessage(p) ==
  <<"Email sending service returned failure: ",
    IF p.error \in {"absent", ""} THEN "unknown error" ELSE p.error>>

NoMessage == <<>>

\* the ids every envelope carries forward
RunNames == {"run-1", "run-2"}

\* the data of the create-run jobs the scheduler adds: { campaignId, clerkOrgId }
CreateJobs ==
  {[runId |-> "none", campaignId |-> "campaign-1", clerkOrgId |-> "org-1"],
   [runId |-> "none", campaignId |-> "campaign-2", clerkOrgId |-> "org-2"]}

NoIds == [runId |-> "none", campaignId |-> "none", clerkOrgId |-> "none"]

NoEnvelope == [brandUrl |-> Missing, brandId |-> "none", ids |-> NoIds]

\* a job added to a stage queue: the queue, the ids of its data, the ids of
\* the job whose processor added it
Added(queue, ids, by) == [queue |-> queue, ids |-> ids, by |-> by]

NoStg == [on |-> FALSE,
          createJob |-> NoIds, infoJob |-> NoIds, added |-> <<>>, succeeded |-> {},
          details |-> [brandUrl |-> Missing, rawUrl |-> Missing, brandId |-> "none"],
          profileJob |-> NoEnvelope, profileAnswer |-> "none", profileAdd |-> "none",
          leadsJobs |-> <<>>, pulls |-> 0, leadAnswer |-> NoLeadAnswer, pulled |-> FALSE,
          events |-> <<>>, early |-> <<>>,
          sendCalls |-> 0, received |-> FALSE, payload |-> NoPayload,
          sendError |-> NoMessage]

StagesIdle == stg = NoStg

\* the campaign details getCampaign will return, fixed for the run
StageDetails ==
  [brandUrl : BrandUrls \cup {Missing},
   rawUrl : {Missing, [kind |-> "url", host |-> <<"www", "acme", "com">>]},
   brandId : BrandIds \cup {"none"}]

\* the state after an admission has added one create-run job
StagesInit ==
  /\ stg \in {[NoStg EXCEPT !.on = TRUE, !.details = d, !.createJob = j] :
                d \in StageDetails, j \in CreateJobs}
  /\ campaign \in PipeCampaigns
  /\ calendar = [daily |-> 1, weekly |-> 0, monthly |-> 0]
  /\ history = <<>>
  /\ env = PipeEnv
  /\ budgetResult = NoBudgetResult
  /\ gateResult = NoGateResult
  /\ retrigResult = NoRetrigResult
  /\ volumeResult = NoVolumeResult
  /\ createQ = 1
  /\ pipe = [r \in RunIds |-> IF r = 1 THEN [NoPipe EXCEPT !.stage = "create"] ELSE NoPipe]
  /\ runKeys = [r \in RunIds |-> NoKeys]
  /\ fin = [r \in RunIds |-> 0]
  /\ poll = [pc |-> "idle", staleSeen |-> {}]
  /\ SchedIdle

\* a finalization with zero statistics issued by a stage before the fan-out
EarlyFinalize(by, written) ==
  [by |-> by, stats |-> ZeroStats, status |-> FinalStatus(ZeroStats), written |-> written]

\* mutation: the organization id left out of the job data
InfoJobDataNoOrg(id, job) ==
  [runId |-> id, campaignId |-> job.campaignId, clerkOrgId |-> "none"]

\* { runId, campaignId, clerkOrgId } as GetCampaignInfoJobData
InfoJobData(id, job) ==
  [runId |-> id, campaignId |-> job.campaignId, clerkOrgId |-> job.clerkOrgId]

\* create-run processor: createRun, whose answer carries the id the ledger
\* gave the run, then the add of the get-campaign-info job; the failed handler
\* only logs
CreateStage ==
  /\ pipe[1].stage = "create"
  /\ createQ > 0
  /\ createQ' = createQ - 1
  /\ \E createOk \in BOOLEAN, addOk \in BOOLEAN, id \in RunNames :
       LET job == stg.createJob
           run == [status |-> "running", stale |-> FALSE, createdAt |-> 1, cost |-> 0]
           data == InfoJobData(id, job)
       IN IF ~createOk
            THEN /\ pipe' = [pipe EXCEPT ![1].stage = "dropped"]
                 /\ UNCHANGED <<history, stg>>
            ELSE /\ history' = <<run>>
                 /\ IF addOk
                      THEN /\ stg' = [stg EXCEPT !.infoJob = data,
                                                 !.added = Append(@, Added("get-campaign-info",
                                                                           data, job)),
                                                 !.succeeded = @ \cup {"create-run"}]
                           /\ pipe' = [pipe EXCEPT ![1].stage = "info"]
                      ELSE /\ stg' = [stg EXCEPT !.infoJob = [NoIds EXCEPT !.runId = id]]
                           /\ pipe' = [pipe EXCEPT ![1].stage = "dropped"]
  /\ UNCHANGED <<campaign, runKeys, fin, poll>>

\* get-campaign-info processor and failed handler
InfoStage ==
  /\ pipe[1].stage = "info"
  /\ \E getOk \in BOOLEAN, addOk \in BOOLEAN :
       LET d == stg.details
           brandUrl == OrElse(d.brandUrl, d.rawUrl)
           passes == /\ getOk
                     /\ brandUrl.kind # "missing"
                     /\ d.brandId # "none"
                     /\ brandUrl.kind = "url"
                     /\ addOk
       IN IF passes
            THEN /\ stg' = [stg EXCEPT
                               !.profileJob = [brandUrl |-> brandUrl, brandId |-> d.brandId,
                                               ids |-> stg.infoJob],
                               !.added = Append(@, Added("get-brand-sales-profile",
                                                         stg.infoJob, stg.infoJob)),
                               !.succeeded = @ \cup {"get-campaign-info"}]
                 /\ pipe' = [pipe EXCEPT ![1].stage = "profile"]
                 /\ UNCHANGED fin
            ELSE /\ stg' = [stg EXCEPT !.early =
                              Append(@, EarlyFinalize("get-campaign-info", FALSE))]
                 /\ pipe' = [pipe EXCEPT ![1].stage = "dropped", ![1].end = "queued",
                                         ![1].endStats = ZeroStats]
                 /\ fin' = [fin EXCEPT ![1] = @ + 1]
  /\ UNCHANGED <<campaign, history, createQ, runKeys, poll>>

\* get-brand-sales-profile processor and failed handler
ProfileStage ==
  /\ pipe[1].stage = "profile"
  /\ \E answer \in ProfileAnswers, addOk \in BOOLEAN, updOk \in BOOLEAN :
       LET job == stg.profileJob
           clientData == ClientData(job.brandUrl, answer)
       IN IF job.brandUrl.kind = "url" /\ addOk
            THEN /\ stg' = [stg EXCEPT !.profileAnswer = answer, !.profileAdd = "accepted",
                                       !.leadsJobs = Append(@, [brandId |-> job.brandId,
                                                               clientData |-> clientData,
                                                               ids |-> job.ids]),
                                       !.added = Append(@, Added("get-campaign-leads",
                                                                 job.ids, job.ids)),
                                       !.succeeded = @ \cup {"get-brand-sales-profile"}]
                 /\ pipe' = [pipe EXCEPT ![1].stage = "leads"]
                 /\ UNCHANGED <<history, runKeys, fin>>
            ELSE /\ stg' = [stg EXCEPT !.profileAnswer = answer, !.profileAdd = "rejected",
                                       !.early = Append(@, EarlyFinalize(
                                                     "get-brand-sales-profile", updOk))]
                 /\ pipe' = [pipe EXCEPT ![1].stage = "dropped"]
                 /\ fin' = [fin EXCEPT ![1] = @ + 1]
                 /\ FinalizeRun(1, ZeroStats, updOk)
  /\ UNCHANGED <<campaign, createQ, poll>>

\* the three SETs of initRunTracking, some of which were done when it throws
PartialTracking ==
  {NoKeys, [NoKeys EXCEPT !["total"] = 1], [NoKeys EXCEPT !["total"] = 1, !["done"] = 0]}

\* mutation: the fan-out before the initialisation
LeadsStepsReversed == <<"leadsAdd", "leadsInit", "fanout">>

\* await initRunTracking(runId, jobs.length); await addBulk(jobs)
LeadsSteps == <<"leadsInit", "leadsAdd", "fanout">>

StepAfter(step) ==
  IF step = LeadsSteps[1] THEN LeadsSteps[2] ELSE LeadsSteps[3]

\* where the processor goes after the pull
FirstStep == LeadsSteps[1]

\* get-campaign-leads processor up to the if (jobs.length > 0): the one
\* leadService.next call; without a usable lead finalizeRun with zero stats,
\* on an error the failed handler does the same
LeadsPull ==
  /\ pipe[1].stage = "leads"
  /\ \E callOk \in BOOLEAN, a \in LeadAnswers, updOk \in BOOLEAN :
       /\ ~callOk => a = NoLeadAnswer
       /\ IF callOk /\ JobsFor(a) > 0
            THEN /\ stg' = [stg EXCEPT !.pulls = @ + 1, !.leadAnswer = a, !.pulled = TRUE]
                 /\ pipe' = [pipe EXCEPT ![1].stage = FirstStep]
                 /\ UNCHANGED <<history, runKeys, fin>>
            ELSE /\ stg' = [stg EXCEPT !.pulls = @ + 1, !.leadAnswer = a,
                                       !.pulled = callOk,
                                       !.early = Append(@, EarlyFinalize(
                                                     "get-campaign-leads", updOk))]
                 /\ pipe' = [pipe EXCEPT ![1].stage = "dropped"]
                 /\ fin' = [fin EXCEPT ![1] = @ + 1]
                 /\ FinalizeRun(1, ZeroStats, updOk)
  /\ UNCHANGED <<campaign, createQ, poll>>

\* the failed handler of get-campaign-leads
LeadsFailed(updOk, keys) ==
  /\ stg' = [stg EXCEPT !.early = Append(@, EarlyFinalize("get-campaign-leads", updOk))]
  /\ pipe' = [pipe EXCEPT ![1].stage = "dropped"]
  /\ fin' = [fin EXCEPT ![1] = @ + 1]
  /\ history' = IF updOk THEN SetRunStatus(history, 1, FinalStatus(ZeroStats)) ELSE history
  /\ runKeys' = [runKeys EXCEPT ![1] = IF updOk THEN NoKeys ELSE keys]

\* await initRunTracking(runId, jobs.length)
LeadsInitTracking ==
  /\ pipe[1].stage = "leadsInit"
  /\ \E ok \in BOOLEAN, updOk \in BOOLEAN, part \in PartialTracking :
       IF ok
         THEN /\ runKeys' = [runKeys EXCEPT ![1] = InitRunTracking(JobsFor(stg.leadAnswer))]
              /\ stg' = [stg EXCEPT !.events = Append(@, "init")]
              /\ pipe' = [pipe EXCEPT ![1].stage = StepAfter("leadsInit")]
              /\ UNCHANGED <<history, fin>>
         ELSE LeadsFailed(updOk, part)
  /\ UNCHANGED <<campaign, createQ, poll>>

\* await queues[EMAIL_GENERATE].addBulk(jobs)
LeadsAddBulk ==
  /\ pipe[1].stage = "leadsAdd"
  /\ \E ok \in BOOLEAN, updOk \in BOOLEAN :
       IF ok
         THEN /\ stg' = [stg EXCEPT !.events = Append(@, "add")]
              /\ pipe' = [pipe EXCEPT ![1].stage = StepAfter("leadsAdd"),
                                      ![1].gen = "queued"]
              /\ UNCHANGED <<history, runKeys, fin>>
         ELSE LeadsFailed(updOk, runKeys[1])
  /\ UNCHANGED <<campaign, createQ, poll>>

\* email-send processor: skipped without an address, else one
\* emailSendingService.send call whose payload is validated
SendStage ==
  /\ pipe[1].send = "queued"
  /\ IF ~stg.leadAnswer.hasEmail
       \* toEmail = leadData.email || "": return { skipped: true }
       THEN /\ pipe' = [pipe EXCEPT ![1].send = "handler", ![1].sendOk = TRUE]
            /\ UNCHANGED stg
       ELSE \E callOk \in BOOLEAN, p \in SendPayloads :
              /\ ~callOk => p = NoPayload
              /\ LET thrown == ~callOk \/ SendFails(p)
                 IN /\ stg' = [stg EXCEPT
                                 !.sendCalls = @ + 1, !.received = callOk, !.payload = p,
                                 !.sendError = IF ~callOk THEN <<"transport">>
                                               ELSE IF SendFails(p) THEN SendErrorMessage(p)
                                               ELSE NoMessage]
                    /\ pipe' = [pipe EXCEPT ![1].send = "handler", ![1].sendOk = ~thrown]
  /\ UNCHANGED <<campaign, history, createQ, runKeys, fin, poll>>

\* ================================================= resilient call clients
\* callService (src/lib/service-client.ts) and runsRequest (runs client): one
\* call is followed from its first fetch to its return or throw.
MAX_RETRIES == 3
BASE_DELAY_MS == 500

\* the same two constants of the runs client
RunsMaxRetries == 3
RunsBaseDelayMs == 500

\* the call sites with the options they pass
CallSites ==
  {[site |-> "leadService.next", client |-> "callService", noRetry |-> TRUE],
   [site |-> "emailSendingService.send", client |-> "callService", noRetry |-> TRUE],
   [site |-> "leadService.getStats", client |-> "callService", noRetry |-> FALSE],
   [site |-> "brandService.getSalesProfile", client |-> "callService", noRetry |-> FALSE],
   [site |-> "runsService.updateRun", client |-> "runsRequest", noRetry |-> FALSE],
   [site |-> "runsService.listRuns", client |-> "runsRequest", noRetry |-> FALSE]}

\* what one fetch can bring: a network error, the AbortSignal timeout, or a
\* response with a status; the body of a response can be read (text(), json())
\* or the read rejects; an error body may itself quote the words "failed: 4"
Statuses == {200, 304, 404, 499, 500, 503}
Bodies == {"plain", "failed: 4"}

Outcomes ==
  {[kind |-> k, status |-> 0, body |-> "plain", read |-> FALSE] : k \in {"network", "timeout"}}
    \cup {o \in [kind : {"response"}, status : Statuses, body : Bodies, read : BOOLEAN] :
            \* only an error body that was read is looked at
            (o.status = 200 \/ ~o.read) => o.body = "plain"}

\* response.ok
ResponseOk(o) == o.kind = "response" /\ o.status >= 200 /\ o.status <= 299

NoError == [prefix |-> "none", status |-> 0, text |-> "plain"]

\* new Error(`Service call failed: ${response.status} - ${error}`) and
\* new Error(`runs-service ${method} ${path} failed: ${response.status} - ${errorText}`);
\* every other error keeps the message the runtime gave it
ErrorOf(client, o) ==
  IF o.kind = "response" /\ ~ResponseOk(o) /\ o.read
    THEN [prefix |-> IF client = "callService" THEN "Service call failed: "
                     ELSE "runs-service",
          status |-> o.status, text |-> o.body]
    ELSE [prefix |-> IF o.kind = "response" THEN "body" ELSE o.kind,
          status |-> 0, text |-> "plain"]

\* the first digit of a three-digit status
FirstDigit(status) == status \div 100

\* mutation: the catch block never rethrows
RethrownNever(client, e) == FALSE

\* the test of the catch block:
\*   lastError.message.startsWith("Service call failed: 4")
\*   lastError.message.startsWith("runs-service") && lastError.message.includes("failed: 4")
Rethrown(client, e) ==
  IF client = "callService"
    THEN e.prefix = "Service call failed: " /\ FirstDigit(e.status) = 4
    ELSE e.prefix = "runs-service" /\ (FirstDigit(e.status) = 4 \/ e.text = "failed: 4")

\* mutation: the noRetry option ignored
MaxRetriesAlways(c) == IF c.client = "callService" THEN MAX_RETRIES ELSE RunsMaxRetries

\* const maxRetries = noRetry ? 0 : MAX_RETRIES (runsRequest has no option)
MaxRetriesOf(c) ==
  IF c.client = "callService"
    THEN (IF c.noRetry THEN 0 ELSE MAX_RETRIES)
    ELSE RunsMaxRetries

\* mutation: a constant delay
DelayConstant(c, attempt) ==
  IF c.client = "callService" THEN BASE_DELAY_MS ELSE RunsBaseDelayMs

\* const delay = BASE_DELAY_MS * Math.pow(2, attempt)
Delay(c, attempt) ==
  (IF c.client = "callService" THEN BASE_DELAY_MS ELSE RunsBaseDelayMs) * 2^attempt

NoHttp == [site |-> "none", client |-> "none", noRetry |-> FALSE, pc |-> "off",
           attempt |-> 0, log |-> <<>>, waits |-> <<>>, lastError |-> NoError]

ClientIdle == http = NoHttp

ClientInit ==
  \E c \in CallSites :
    http = [NoHttp EXCEPT !.site = c.site, !.client = c.client, !.noRetry = c.noRetry,
                          !.pc = "fetch"]

\* one pass of the loop body up to the if (attempt < maxRetries): the fetch,
\* the response test, the catch block
CallAttempt ==
  /\ http.pc = "fetch"
  /\ \E o \in Outcomes :
       LET e == ErrorOf(http.client, o)
           logged == [http EXCEPT !.log = Append(@, o)]
       IN IF ResponseOk(o)
            \* return response.json(): outside the reach of the catch block
            THEN http' = [logged EXCEPT !.pc = IF o.read THEN "returned" ELSE "thrown",
                                        !.lastError = IF o.read THEN @ ELSE e]
            ELSE IF Rethrown(http.client, e)
              THEN http' = [logged EXCEPT !.pc = "thrown", !.lastError = e]
              ELSE IF http.attempt < MaxRetriesOf(http)
                THEN http' = [logged EXCEPT !.pc = "backoff", !.lastError = e,
                                            !.waits = Append(@, Delay(http, http.attempt))]
                \* the loop ends: throw lastError
                ELSE http' = [logged EXCEPT !.pc = "thrown", !.lastError = e]

\* the setTimeout of the backoff elapses and the loop goes round
CallBackoff ==
  /\ http.pc = "backoff"
  /\ http' = [http EXCEPT !.pc = "fetch", !.attempt = @ + 1]

\* ============================================================ specifications
\* ============================================================ the process
\* src/index.ts: the environment guard, the start of the scheduler and of the
\* seven workers, and the SIGTERM / SIGINT handlers.

\* mutation: only the broker connection string is required
RequiredEnvVarsRedisOnly == {"REDIS_URL"}

\* const requiredEnvVars = ["REDIS_URL", "EMAIL_GATEWAY_SERVICE_API_KEY"]
RequiredEnvVars == {"REDIS_URL", "EMAIL_GATEWAY_SERVICE_API_KEY"}

\* a variable is unset, set to the empty string, or set to a value
EnvValues == {"unset", "", "redis://x"}

\* !process.env[envVar]
Falsy(v) == v = "unset" \/ v = ""

\* the workers array of index.ts, in the order they are started
WorkerList == <<"create-run", "get-campaign-info", "get-brand-sales-profile",
                "get-campaign-leads", "email-generate", "email-send", "end-run">>

\* the handlers treat the workers alike (workers.map): the model keeps, for
\* each position, the number of workers in it
WorkerStates == {"off", "running", "closing", "closed", "rejected"}

NoWorkers == [x \in WorkerStates |-> IF x = "off" THEN Len(WorkerList) ELSE 0]

\* n workers move from position a to position b
Move(ws, n, a, b) == [ws EXCEPT ![a] = @ - n, ![b] = @ + n]

Signals == {"SIGTERM", "SIGINT"}

NoProc == [on |-> FALSE,
           env |-> [v \in {"REDIS_URL", "EMAIL_GATEWAY_SERVICE_API_KEY"} |-> "unset"],
           pc |-> "boot", exit |-> Absent, interval |-> "off",
           workers |-> NoWorkers, conn |-> "none",
           handlers |-> [g \in Signals |-> "idle"]]

ProcIdle == proc = NoProc

\* the module is loaded with some environment; nothing is started
ProcInit ==
  \E e \in [{"REDIS_URL", "EMAIL_GATEWAY_SERVICE_API_KEY"} -> EnvValues] :
    proc = [NoProc EXCEPT !.on = TRUE, !.env = e]

\* process.exit(code): nothing of the process runs afterwards
Exit(p, code) == [p EXCEPT !.pc = "exited", !.exit = code]

\* the loop over requiredEnvVars: exit 1 at the first one that is not set
ValidateEnv ==
  /\ proc.on /\ proc.pc = "boot"
  /\ proc' = IF \E v \in RequiredEnvVars : Falsy(proc.env[v])
               THEN Exit(proc, 1)
               ELSE [proc EXCEPT !.pc = "validated"]
  /\ UNCHANGED <<schedVars, campaign, history, createQ>>

\* startCampaignScheduler(30000): the flag is lowered, pollCampaigns is called
\* at once (it runs to its first await) and the interval is armed
StartScheduler ==
  /\ proc.pc = "validated"
  /\ ~isShuttingDown
  /\ TickFires(1)
  /\ proc' = [proc EXCEPT !.pc = "scheduled", !.interval = "armed"]

\* the seven start...Worker() calls; a throw of the k-th one is caught by the
\* try block around the startup, which exits with code 1
StartWorkers ==
  /\ proc.pc = "scheduled"
  /\ \E k \in 0..Len(WorkerList) :
       LET started == Move(proc.workers, k, "off", "running")
           p == [proc EXCEPT !.workers = started,
                             !.conn = IF k > 0 THEN "open" ELSE proc.conn]
       IN proc' = IF k = Len(WorkerList) THEN [p EXCEPT !.pc = "running"]
                  ELSE Exit(p, 1)
  /\ UNCHANGED <<schedVars, campaign, history, createQ>>

\* the next callback of the interval: only while the interval is armed
IntervalFires(i) ==
  /\ proc.pc = "running" /\ proc.interval = "armed"
  /\ i > 1 /\ ticks[i - 1].pc # "pending"
  /\ TickFires(i)
  /\ UNCHANGED proc

\* the continuation of a poll in flight
PollContinues(i) ==
  /\ proc.pc = "running"
  /\ TickLists(i) \/ TickEvaluates(i)
  /\ UNCHANGED proc

\* the handler of a signal up to its first await: stopCampaignScheduler(),
\* clearInterval(schedulerInterval), and close() called on every worker (a
\* worker that is already closing hands back the close in progress)
SignalHandler(g) ==
  /\ proc.pc = "running" /\ proc.handlers[g] = "idle"
  /\ isShuttingDown' = TRUE
  /\ proc' = [proc EXCEPT !.interval = "cleared",
                          !.handlers[g] = "closing",
                          !.workers = Move(proc.workers, proc.workers["running"],
                                           "running", "closing")]
  /\ UNCHANGED <<isPolling, ticks, campaign, history, createQ>>

\* the close of one worker settles: resolved or rejected
WorkerCloses ==
  /\ proc.pc = "running" /\ proc.workers["closing"] > 0
  /\ \E ok \in BOOLEAN :
       proc' = [proc EXCEPT !.workers = Move(@, 1, "closing",
                                            IF ok THEN "closed" ELSE "rejected")]
  /\ UNCHANGED <<schedVars, campaign, history, createQ>>

\* mutation: the handler does not wait for the workers
AllClosedNotAwaited(workers) == TRUE

\* await Promise.all(workers.map((w) => w.close())) has resolved
AllClosed(workers) == workers["closed"] = Len(WorkerList)

\* Promise.all rejects as soon as one close rejects: the handler ends there,
\* neither closeRedis nor process.exit(0) is reached
HandlerRejected(g) ==
  /\ proc.pc = "running" /\ proc.handlers[g] = "closing"
  /\ proc.workers["rejected"] > 0
  /\ proc' = [proc EXCEPT !.handlers[g] = "rejected"]
  /\ UNCHANGED <<schedVars, campaign, history, createQ>>

\* closeRedis(): if (redis) await redis.quit()
CloseRedis(g) ==
  /\ proc.pc = "running" /\ proc.handlers[g] = "closing"
  /\ AllClosed(proc.workers)
  /\ proc' = [proc EXCEPT !.handlers[g] = "quitting",
                          !.conn = IF proc.conn = "open" THEN "quitting" ELSE proc.conn]
  /\ UNCHANGED <<schedVars, campaign, history, createQ>>

\* redis.quit() has settled, redis = null, then process.exit(0)
HandlerExits(g) ==
  /\ proc.pc = "running" /\ proc.handlers[g] = "quitting"
  /\ proc' = Exit([proc EXCEPT !.handlers[g] = "done", !.conn = "closed"], 0)
  /\ UNCHANGED <<schedVars, campaign, history, createQ>>

vars == <<trackerVars, endRunVars, gateVars, pipeVars, clientVars, stageVars,
         procVars>>

InitTracker == TrackerInit /\ EndRunIdle /\ GateIdle /\ PipeIdle /\ ClientIdle /\ StagesIdle /\ ProcIdle

NextTracker ==
  \/ \E i \in Callers : MarkIncrDone(i) /\ UNCHANGED <<endRunVars, gateVars, pipeVars, sideVars>>
  \/ \E i \in Callers : MarkIncrFailed(i) /\ UNCHANGED <<endRunVars, gateVars, pipeVars, sideVars>>
  \/ \E i \in Callers : MarkGetTotal(i) /\ UNCHANGED <<endRunVars, gateVars, pipeVars, sideVars>>
  \/ \E i \in Callers : MarkGetFailed(i) /\ UNCHANGED <<endRunVars, gateVars, pipeVars, sideVars>>
  \/ CleanupStep /\ UNCHANGED <<endRunVars, gateVars, pipeVars, sideVars>>

SpecTracker == InitTracker /\ [][NextTracker]_vars

InitEndRun == EndRunInit /\ TrackerIdle /\ GateIdle /\ PipeIdle /\ ClientIdle /\ StagesIdle /\ ProcIdle

NextEndRun ==
  \/ EndRunWorkerStatus /\ UNCHANGED <<trackerVars, gateVars, pipeVars, sideVars>>
  \/ FinalizeRunStatus /\ UNCHANGED <<trackerVars, gateVars, pipeVars, sideVars>>

SpecEndRun == InitEndRun /\ [][NextEndRun]_vars

InitBudget == BudgetInit /\ TrackerIdle /\ EndRunIdle /\ PipeIdle /\ ClientIdle /\ StagesIdle /\ ProcIdle

NextBudget == CheckBudget /\ UNCHANGED <<trackerVars, endRunVars, pipeVars, sideVars>>

SpecBudget == InitBudget /\ [][NextBudget]_vars

InitVolume == VolumeInit /\ TrackerIdle /\ EndRunIdle /\ PipeIdle /\ ClientIdle /\ StagesIdle /\ ProcIdle

NextVolume == CheckVolume /\ UNCHANGED <<trackerVars, endRunVars, pipeVars, sideVars>>

SpecVolume == InitVolume /\ [][NextVolume]_vars

InitPoller == PollerInit /\ TrackerIdle /\ EndRunIdle /\ ClientIdle /\ StagesIdle /\ ProcIdle

pollerRest == <<trackerVars, endRunVars, calendar, env, budgetResult, gateResult,
                retrigResult, volumeResult, pipe, runKeys, fin, poll, sideVars>>

NextPoller ==
  \/ \E i \in TickIds : TickFires(i) /\ UNCHANGED pollerRest
  \/ \E i \in TickIds : TickLists(i) /\ UNCHANGED pollerRest
  \/ \E i \in TickIds : TickEvaluates(i) /\ UNCHANGED pollerRest
  \/ StopCampaignScheduler /\ UNCHANGED pollerRest

SpecPoller == InitPoller /\ [][NextPoller]_vars

InitGate == GateInit /\ TrackerIdle /\ EndRunIdle /\ PipeIdle /\ ClientIdle /\ StagesIdle /\ ProcIdle

NextGate ==
  \/ PollEvaluate /\ UNCHANGED <<trackerVars, endRunVars, pipeVars, sideVars>>
  \/ Retrigger /\ UNCHANGED <<trackerVars, endRunVars, pipeVars, sideVars>>

SpecGate == InitGate /\ [][NextGate]_vars

InitClient == ClientInit /\ TrackerIdle /\ EndRunIdle /\ GateIdle /\ PipeIdle /\ StagesIdle /\ ProcIdle

clientRest == <<trackerVars, endRunVars, gateVars, pipeVars, stageVars, procVars>>

NextClient ==
  \/ CallAttempt /\ UNCHANGED clientRest
  \/ CallBackoff /\ UNCHANGED clientRest

\* every fetch settles (response, error or the AbortSignal timeout) and every
\* backoff timer fires
SpecClient == InitClient /\ [][NextClient]_vars /\ WF_vars(NextClient)

\* the whole worker process: scheduler, the seven workers, the clock
Init == PipeInit /\ TrackerIdle /\ EndRunIdle /\ ClientIdle /\ StagesIdle /\ ProcIdle

gateRest == <<calendar, env, budgetResult, gateResult, retrigResult, volumeResult, schedVars>>

Next ==
  \/ PollList /\ UNCHANGED <<trackerVars, endRunVars, gateRest, sideVars>>
  \/ PollReclaim /\ UNCHANGED <<trackerVars, endRunVars, gateRest, sideVars>>
  \/ PollDecide /\ UNCHANGED <<trackerVars, endRunVars, gateRest, sideVars>>
  \/ CreateRunJob /\ UNCHANGED <<trackerVars, endRunVars, gateRest, sideVars>>
  \/ \E r \in RunIds : RunAges(r) /\ UNCHANGED <<trackerVars, endRunVars, gateRest, sideVars>>
  \/ \E r \in RunIds : GetCampaignInfoJob(r) /\ UNCHANGED <<trackerVars, endRunVars, gateRest, sideVars>>
  \/ \E r \in RunIds : GetBrandSalesProfileJob(r) /\ UNCHANGED <<trackerVars, endRunVars, gateRest, sideVars>>
  \/ \E r \in RunIds : GetCampaignLeadsJob(r) /\ UNCHANGED <<trackerVars, endRunVars, gateRest, sideVars>>
  \/ \E r \in RunIds : EmailGenerateJob(r) /\ UNCHANGED <<trackerVars, endRunVars, gateRest, sideVars>>
  \/ \E r \in RunIds : GenerateHandlerMark(r) /\ UNCHANGED <<trackerVars, endRunVars, gateRest, sideVars>>
  \/ \E r \in RunIds : GenerateFinalizeUpdate(r) /\ UNCHANGED <<trackerVars, endRunVars, gateRest, sideVars>>
  \/ \E r \in RunIds : GenerateFinalizeDel(r) /\ UNCHANGED <<trackerVars, endRunVars, gateRest, sideVars>>
  \/ \E r \in RunIds : GenerateRetrigger(r) /\ UNCHANGED <<trackerVars, endRunVars, gateRest, sideVars>>
  \/ \E r \in RunIds : EmailSendJob(r) /\ UNCHANGED <<trackerVars, endRunVars, gateRest, sideVars>>
  \/ \E r \in RunIds : SendHandler(r) /\ UNCHANGED <<trackerVars, endRunVars, gateRest, sideVars>>
  \/ \E r \in RunIds : EndRunUpdate(r) /\ UNCHANGED <<trackerVars, endRunVars, gateRest, sideVars>>
  \/ \E r \in RunIds : EndRunFinish(r) /\ UNCHANGED <<trackerVars, endRunVars, gateRest, sideVars>>

Spec == Init /\ [][Next]_vars

\* one run with its payloads, from get-campaign-info to its finalization
InitStages == StagesInit /\ TrackerIdle /\ EndRunIdle /\ ClientIdle /\ ProcIdle

stagesRest == <<trackerVars, endRunVars, gateRest, clientVars, procVars>>

NextStages ==
  \/ CreateStage /\ UNCHANGED stagesRest
  \/ InfoStage /\ UNCHANGED stagesRest
  \/ ProfileStage /\ UNCHANGED stagesRest
  \/ LeadsPull /\ UNCHANGED stagesRest
  \/ LeadsInitTracking /\ UNCHANGED stagesRest
  \/ LeadsAddBulk /\ UNCHANGED stagesRest
  \/ EmailGenerateJob(1) /\ UNCHANGED <<stagesRest, stg>>
  \/ GenerateHandlerMark(1) /\ UNCHANGED <<stagesRest, stg>>
  \/ GenerateFinalizeUpdate(1) /\ UNCHANGED <<stagesRest, stg>>
  \/ GenerateFinalizeDel(1) /\ UNCHANGED <<stagesRest, stg>>
  \/ GenerateRetrigger(1) /\ UNCHANGED <<stagesRest, stg>>
  \/ SendStage /\ UNCHANGED stagesRest
  \/ SendHandler(1) /\ UNCHANGED <<stagesRest, stg>>
  \/ EndRunUpdate(1) /\ UNCHANGED <<stagesRest, stg>>
  \/ EndRunFinish(1) /\ UNCHANGED <<stagesRest, stg>>

SpecStages == InitStages /\ [][NextStages]_vars

InitProcess ==
  /\ ProcInit
  /\ PipeQuiet
  /\ isPolling = FALSE
  /\ isShuttingDown = FALSE
  /\ ticks = [i \in TickIds |-> [NoTick EXCEPT !.pc = "pending"]]
  /\ campaign \in {c \in GateCampaigns :
                     c.maxLeads = 0 /\ c.budget["daily"] = 1 /\ c.status = "ongoing"}
  /\ calendar = [daily |-> 1, weekly |-> 0, monthly |-> 0]
  /\ history = <<>>
  /\ env = AllOk
  /\ budgetResult = NoBudgetResult
  /\ gateResult = NoGateResult
  /\ retrigResult = NoRetrigResult
  /\ volumeResult = NoVolumeResult
  /\ TrackerIdle /\ EndRunIdle /\ ClientIdle /\ StagesIdle

processRest == <<trackerVars, endRunVars, calendar, env, budgetResult, gateResult,
                 retrigResult, volumeResult, pipe, runKeys, fin, poll, clientVars,
                 stageVars>>

NextProcess ==
  \/ ValidateEnv /\ UNCHANGED processRest
  \/ StartScheduler /\ UNCHANGED processRest
  \/ StartWorkers /\ UNCHANGED processRest
  \/ \E i \in TickIds : IntervalFires(i) /\ UNCHANGED processRest
  \/ \E i \in TickIds : PollContinues(i) /\ UNCHANGED processRest
  \/ \E g \in Signals : SignalHandler(g) /\ UNCHANGED processRest
  \/ WorkerCloses /\ UNCHANGED processRest
  \/ \E g \in Signals : HandlerRejected(g) /\ UNCHANGED processRest
  \/ \E g \in Signals : CloseRedis(g) /\ UNCHANGED processRest
  \/ \E g \in Signals : HandlerExits(g) /\ UNCHANGED processRest

SpecProcess == InitProcess /\ [][NextProcess]_vars

InitLedger ==
  /\ LedgerInit /\ TrackerIdle /\ EndRunIdle /\ PipeIdle /\ ClientIdle /\ StagesIdle
  /\ ProcIdle

NextLedger == CheckListedBudget /\ UNCHANGED <<trackerVars, endRunVars, pipeVars, sideVars>>

SpecLedger == InitLedger /\ [][NextLedger]_vars

InitStop ==
  /\ StopInit /\ TrackerIdle /\ EndRunIdle /\ PipeIdle /\ ClientIdle /\ StagesIdle
  /\ ProcIdle

NextStop ==
  \/ PollEvaluate /\ UNCHANGED <<trackerVars, endRunVars, pipeVars, sideVars>>
  \/ Retrigger /\ UNCHANGED <<trackerVars, endRunVars, pipeVars, sideVars>>

SpecStop == InitStop /\ [][NextStop]_vars

\* ==================================================================== claims

\* C2: when markJobDone is called exactly N times for a run tracked with
\* expected count N >= 1, exactly one of the N calls returns isLast = true,
\* whatever the interleaving of the callers' counter-store operations (and
\* never more than one at any moment).
AllReturned == \A i \in Callers : i <= expected => calls[i].pc = "returned"
LastCallers == {i \in Callers : calls[i].pc = "returned" /\ calls[i].isLast}

C2_ExactlyOneIsLast ==
  /\ Cardinality(LastCallers) <= 1
  /\ (expected >= 1 /\ AllReturned) => Cardinality(LastCallers) = 1

\* all calls returned, and the isLast caller is a failed job that is not the
\* one started with the highest index
C2_Witness ==
  /\ expected >= 2 /\ AllReturned
  /\ \E i \in LastCallers : i < expected /\ ~calls[i].success

\* C7: for every statistics triple given to finalization the final status is
\* failed exactly when failed = total (total = 0 included), else completed.
C7_StatusByStats ==
  endStatus.by # "none" =>
    /\ endStatus.status \in {"failed", "completed"}
    /\ endStatus.status = "failed" <=> stats.failed = stats.total

\* the zero-lead case: total = 0 finalized as failed by the end-run worker
C7_Witness ==
  /\ endStatus.by = "end-run" /\ stats.total = 0 /\ stats.failed = 0
  /\ endStatus.status = "failed"

\* C8: for every configured budget window the spend is the sum of the cost
\* of exactly the runs created at or after the window's lower bound (all
\* runs for the total window), and the budget check refuses admission if and
\* only if spend >= limit holds for at least one configured window.
Configured(l) == campaign.budget[l] # NoLimit

RunInside(l, k) == l = "total" \/ history[k].createdAt >= calendar[l]

RECURSIVE SumInside(_, _)
SumInside(l, k) ==
  IF k > Len(history) THEN 0
  ELSE (IF RunInside(l, k) THEN history[k].cost ELSE 0) + SumInside(l, k + 1)

WindowSpend(l) == SumInside(l, 1)

SomeWindowSpent ==
  \E l \in LabelSet : Configured(l) /\ WindowSpend(l) >= campaign.budget[l] * 100

SomeRunInside == \E l \in LabelSet, k \in 1..Len(history) : Configured(l) /\ RunInside(l, k)
NoWindow == \A l \in LabelSet : ~Configured(l)

UnexpectedFailures == {"listRuns", "getRunsBatch", "getStats"}

C9_FailClosedNoStop ==
  (gateResult.evaluated /\ gateResult.failed \cap UnexpectedFailures # {}) =>
    /\ ~gateResult.shouldRun
    /\ ~gateResult.enqueued
    /\ ~gateResult.stop

\* C10: for the same campaign and the same run history (every collaborator
\* call answering), retrigger enqueues a first-stage job exactly when the
\* poll-path gate returns shouldRun = true and requests a campaign stop in
\* exactly the same cases.
NoFault ==
  /\ env.listRuns1 /\ env.updateRun /\ env.listRuns2 /\ env.getRunsBatch
  /\ env.getCampaign /\ env.stats.kind # "error"

C10_RetriggerSameAsGate ==
  (gateResult.called /\ retrigResult.called /\ NoFault) =>
    /\ retrigResult.enqueue <=> gateResult.shouldRun
    /\ retrigResult.stop <=> gateResult.stop

\* C1: at every moment the campaign has at most one run in running status,
\* under any interleaving of poll ticks, retrigger calls and create-run job
\* processing.
C1_AtMostOneRunning == CountStatus(history, "running", 1) <= 1

\* C3: every created run eventually reaches a terminal status. Stated on
\* finite runs: no state is reached in which a run is still running while
\* nothing that could end it is left - no job or handler of the run is
\* pending, no poll tick is in flight and the campaign is no longer ongoing,
\* so that the poller never evaluates it again.
NoWorkLeft(r) ==
  /\ pipe[r].stage \in {"dropped", "fanout"}
  /\ pipe[r].gen \in {"none", "done"}
  /\ pipe[r].send \in {"none", "done"}
  /\ pipe[r].end \in {"none", "done", "failed"}

Abandoned(r) ==
  /\ r <= Len(history)
  /\ RunStatus(history, r) = "running"
  /\ NoWorkLeft(r)
  /\ poll.pc = "idle"
  /\ campaign.status # "ongoing"

C3_NoRunAbandoned == \A r \in RunIds : ~Abandoned(r)

\* C4: for each run the last-job signal is raised at most once, counting the
\* isLast signal of the generate and deliver handlers, the zero-lead
\* completion and the failure handlers of the stages before fan-out.
C4_OneFinalizeSignal == \A r \in RunIds : fin[r] <= 1

\* C5: once a run's status is completed or failed it never changes again.
Terminal == {"completed", "failed"}

C5_TerminalIsFinal ==
  [][\A r \in 1..Len(history) :
       RunStatus(history, r) \in Terminal =>
         RunStatus(history', r) = RunStatus(history, r)]_vars

\* C6: the finalization of a run with fan-out jobs is signalled only after
\* every sub-job reached a terminal outcome: content delivered, or generation
\* or delivery failed.
SubJobTerminal(r) ==
  \/ pipe[r].send \in {"handler", "done"}
  \/ pipe[r].gen # "queued" /\ pipe[r].send = "none"

C6_FinalizeAfterAllSubJobs ==
  \A r \in RunIds : (pipe[r].stage = "fanout" /\ fin[r] > 0) => SubJobTerminal(r)

\* C11: when the history re-fetched after the stale-run cleanup contains a
\* running run, the gate returns shouldRun = false and hasRunningRun = true
\* without calling the cost ledger or the lead service; no stop is requested
\* and the poller adds no job.
Refetched == gateResult.evaluated /\ env.listRuns1 /\ env.listRuns2

C11_RunningRunRefuses ==
  (Refetched /\ HasRunning(gateResult.ledger)) =>
    /\ ~gateResult.shouldRun
    /\ gateResult.hasRunningRun
    /\ ~gateResult.stop
    /\ ~gateResult.enqueued
    /\ gateResult.failed \cap {"getRunsBatch", "getStats"} = {}

\* a run is still running at the re-fetch although the lead service would
\* have answered the volume check with an error (a stop, had it been asked)
C11_Witness ==
  /\ Refetched
  /\ gateResult.hasRunningRun
  /\ ~gateResult.stop
  /\ env.stats.kind = "error"
  /\ campaign.maxLeads > 0 /\ campaign.hasBrand
  /\ campaign.budget["daily"] = 1
  /\ Len(history) = 2

\* C12: at an evaluation by the poller every run read as running and older
\* than the timeout is sent updateRun(failed) - accepted, or recorded as a
\* failed call - no other run is touched, and the decision is taken on the
\* history as it is after those requests: a crashed run whose reclamation is
\* accepted no longer counts as a running run.
Listed == gateResult.evaluated /\ env.listRuns1

IsStale(run) == run.status = "running" /\ run.stale

C12_StaleRunsReclaimed ==
  Listed =>
    /\ Len(gateResult.ledger) = Len(history)
    /\ \A k \in 1..Len(history) :
         IF IsStale(history[k])
           THEN \/ gateResult.ledger[k].status = "failed"
                \/ "updateRun" \in gateResult.failed /\ gateResult.ledger[k] = history[k]
           ELSE gateResult.ledger[k] = history[k]
    /\ env.listRuns2 => (gateResult.hasRunningRun <=> HasRunning(gateResult.ledger))
    /\ (env.listRuns2 /\ env.updateRun) =>
         (gateResult.hasRunningRun <=>
            \E k \in 1..Len(history) : history[k].status = "running" /\ ~history[k].stale)

\* the only running run of the campaign is stale; it is reclaimed and the
\* campaign is admitted at this very evaluation
C12_Witness ==
  /\ Listed
  /\ \E k \in 1..Len(history) : IsStale(history[k]) /\ gateResult.ledger[k].status = "failed"
  /\ gateResult.shouldRun
  /\ gateResult.enqueued

\* C13: with no running run and with the budget and volume checks passing,
\* admission is refused and a campaign stop requested if and only if the
\* failure streak is at least 3; the streak is the number of failed runs at
\* the head of the history once running runs are left out, so that exactly
\* two consecutive failures still admit.
NotRunning(run) == run.status # "running"

Settled(h) == SelectSeq(h, NotRunning)

Streak(h) ==
  LET t == Settled(h)
      AllFailed(n) == \A k \in 1..n : t[k].status = "failed"
  IN CHOOSE n \in 0..Len(t) :
       AllFailed(n) /\ (n < Len(t) => t[n + 1].status # "failed")

ChecksPass(h) ==
  /\ ~IsBudgetExceeded(campaign, h, calendar, TRUE).exceeded
  /\ ~IsVolumeExceeded(campaign, h, env.stats).exceeded

C13_StreakStops ==
  /\ countConsecutiveFailures(history) = Streak(history)
  /\ (Refetched /\ env.getRunsBatch /\ ~HasRunning(gateResult.ledger)
        /\ ChecksPass(gateResult.ledger)) =>
       IF Streak(gateResult.ledger) >= 3
         THEN ~gateResult.shouldRun /\ gateResult.stop /\ ~gateResult.enqueued
         ELSE gateResult.shouldRun /\ ~gateResult.stop /\ gateResult.enqueued

\* three failed runs, one of them a stale run reclaimed at this evaluation:
\* the campaign is stopped
C13_Witness ==
  /\ Refetched
  /\ ChecksPass(gateResult.ledger)
  /\ Streak(gateResult.ledger) = 3
  /\ HasRunning(history)
  /\ gateResult.stop
  /\ ~gateResult.shouldRun

\* C14 as stated: no cap or no brand id gives not exceeded; otherwise, when
\* the lead service reports a served count, exceeded is true exactly when the
\* reported count >= the cap.
Capped == campaign.maxLeads > 0 /\ campaign.hasBrand

CompletedRuns == Cardinality({k \in 1..Len(history) : history[k].status = "completed"})

C15_StatsFailure ==
  (volumeResult.called /\ Capped) =>
    /\ env.stats.kind = "404" =>
         (volumeResult.exceeded <=> CompletedRuns >= campaign.maxLeads)
    /\ env.stats.kind = "error" => volumeResult.exceeded

\* no stats for the brand yet and two completed runs among three against a
\* cap of two
C15_Witness ==
  /\ volumeResult.called /\ volumeResult.exceeded
  /\ env.stats.kind = "404"
  /\ campaign.maxLeads = 2 /\ campaign.hasBrand
  /\ CompletedRuns = 2
  /\ Len(history) = 3

\* C16: on the poll path and on the retrigger path alike, when the budget
\* check names the total window as the exceeded one a campaign stop is
\* requested and no first-stage job is added; when it names the daily,
\* weekly or monthly window admission is refused without a stop.
BudgetOf(h) == IsBudgetExceeded(campaign, h, calendar, TRUE)

PollReachedBudget ==
  Refetched /\ env.getRunsBatch /\ ~HasRunning(gateResult.ledger)

RetriggerReachedBudget ==
  /\ retrigResult.called /\ campaign.status = "ongoing"
  /\ env.getCampaign /\ env.listRuns1 /\ env.getRunsBatch

C16_TotalBudgetStops ==
  /\ (PollReachedBudget /\ BudgetOf(gateResult.ledger).exceeded) =>
       /\ ~gateResult.shouldRun /\ ~gateResult.enqueued
       /\ gateResult.stop <=> BudgetOf(gateResult.ledger).which = "total"
  /\ (RetriggerReachedBudget /\ BudgetOf(history).exceeded) =>
       /\ ~retrigResult.enqueue
       /\ retrigResult.stop <=> BudgetOf(history).which = "total"

\* a total limit of 2 USD reached by two runs of 1 USD: both paths stop
C16_Witness ==
  /\ PollReachedBudget /\ RetriggerReachedBudget
  /\ campaign.budget["total"] = 2
  /\ BudgetOf(history).exceeded /\ BudgetOf(history).which = "total"
  /\ BudgetOf(history).spendCents = 200
  /\ gateResult.stop /\ retrigResult.stop

\* C17: the budget windows are evaluated in the order daily, weekly, monthly,
\* total: a refusal names the first configured window, in that order, whose
\* spend has reached its limit.
WindowOrder == <<"daily", "weekly", "monthly", "total">>

Spent(l) == Configured(l) /\ WindowSpend(l) >= campaign.budget[l] * 100

FirstSpent ==
  LET i == CHOOSE j \in 1..4 : Spent(WindowOrder[j]) /\ \A m \in 1..(j - 1) : ~Spent(WindowOrder[m])
  IN WindowOrder[i]

C17_FirstExceededWindow ==
  (budgetResult.called /\ ~budgetResult.threw /\ budgetResult.exceeded /\ ~NoWindow) =>
    budgetResult.which = FirstSpent

\* the weekly and the total window are both spent, the daily window is
\* configured and not spent: the refusal names the weekly window
C17_Witness ==
  /\ budgetResult.called /\ budgetResult.exceeded
  /\ Configured("daily") /\ ~Spent("daily")
  /\ Spent("weekly") /\ Spent("total")
  /\ budgetResult.which = "weekly"

\* C18: a campaign without any budget limit is refused admission whatever
\* its run history: neither the poller nor the retrigger adds a first-stage
\* job for it.
Unlimited == \A l \in LabelSet : campaign.budget[l] = NoLimit

C18_NoBudgetRefused ==
  Unlimited =>
    /\ gateResult.called => (~gateResult.shouldRun /\ ~gateResult.enqueued)
    /\ retrigResult.called => ~retrigResult.enqueue

\* an ongoing campaign without limits, two completed runs without cost, all
\* collaborators answering, evaluated on both paths
C18_Witness ==
  /\ Unlimited /\ NoFault
  /\ campaign.status = "ongoing"
  /\ gateResult.evaluated /\ retrigResult.called
  /\ Len(history) = 2
  /\ \A k \in 1..2 : history[k].status = "completed" /\ history[k].cost = 0
  /\ ~gateResult.hasRunningRun

\* C19: at most one poll is in flight at any time, and a tick that fired
\* while a poll was in flight returned without listing the campaigns,
\* evaluating a campaign or adding a job.
InFlight == {i \in TickIds : ticks[i].pc \in {"listing", "evaluating"}}

C19_OnePollInFlight ==
  /\ Cardinality(InFlight) <= 1
  /\ isPolling <=> InFlight # {}
  /\ \A i \in TickIds :
       ticks[i].pc = "skipped" =>
         (~ticks[i].listed /\ ~ticks[i].evaluated /\ ~ticks[i].enqueued)
  /\ createQ = Cardinality({i \in TickIds : ticks[i].enqueued})

\* one tick was skipped while another was evaluating, and a later tick has
\* run a whole poll and added a job
C19_Witness ==
  /\ ~isShuttingDown
  /\ \E i, j, k \in TickIds :
       /\ ticks[i].pc = "skipped"
       /\ ticks[j].pc = "evaluating"
       /\ ticks[k].pc = "finished" /\ ticks[k].enqueued

\* C20: a first-stage job is added for a campaign only if the status read by
\* that check is ongoing and the admission logic admitted it, on a poll tick
\* and on a retrigger alike; a campaign with another status is not
\* evaluated, not stopped and gets no job.
C20_OnlyOngoingAdmitted ==
  /\ gateResult.enqueued =>
       (campaign.status = "ongoing" /\ gateResult.shouldRun /\ ~gateResult.hasRunningRun)
  /\ retrigResult.enqueue =>
       (campaign.status = "ongoing" /\ Cascade(campaign, history, calendar, env).admit)
  /\ campaign.status # "ongoing" =>
       /\ ~gateResult.evaluated /\ ~gateResult.enqueued /\ ~gateResult.stop
       /\ gateResult.called => gateResult.ledger = history
       /\ ~retrigResult.enqueue /\ ~retrigResult.stop

\* a stopped campaign whose history would be admitted, seen by a poll tick
\* and by a retrigger
C20_Witness ==
  /\ campaign.status = "stopped"
  /\ gateResult.called /\ retrigResult.called
  /\ NoFault
  /\ Cascade(campaign, history, calendar, env).admit
  /\ ~HasRunning(history)
  /\ Len(history) = 2

\* C21: whenever a stage before content generation (create-run, campaign
\* info, brand profile, lead sourcing) fails with an uncaught error for a run
\* that already exists, a finalize with zero statistics is issued for that
\* run: a run whose chain stopped before fan-out has a finalize signal.
C21_EarlyFailureFinalizes ==
  \A r \in RunIds :
    (r <= Len(history) /\ pipe[r].stage = "dropped") => fin[r] >= 1

\* C28: for every tracked run the counters satisfy done <= expected total and
\* failed <= done, in every state of the counter store, whatever the
\* interleaving of the generate and deliver handlers.
Tracked(r) == runKeys[r]["total"] # Absent

C28_CountersBounded ==
  \A r \in RunIds :
    Tracked(r) =>
      /\ GetInt(runKeys[r], "done") <= GetInt(runKeys[r], "total")
      /\ GetInt(runKeys[r], "failed") <= GetInt(runKeys[r], "done")

\* C30: finalization proceeds in the order status update, tracking cleanup,
\* retrigger: the admission logic is re-evaluated for the campaign only after
\* the run's terminal status has been written, and a failed status update is
\* followed by neither cleanup nor retrigger.
AtRetrigger(r) == pipe[r].gen = "retrigger" \/ pipe[r].end = "cleanup"

C30_RetriggerAfterStatusWritten ==
  \A r \in RunIds :
    (r <= Len(history) /\ AtRetrigger(r)) => RunStatus(history, r) \in Terminal

\* C25: a call that receives a 4xx response is never retried: the request
\* that brought it is the last one of the call (the only one when it is the
\* first), no backoff follows it and the call throws the error built from that
\* response; for callService and for runsRequest alike. A response counts as
\* received when its status and body were read.
Is4xx(o) == o.kind = "response" /\ FirstDigit(o.status) = 4 /\ o.read

Finished == http.pc \in {"returned", "thrown"}

RetryableFailure(o) ==
  \/ o.kind \in {"network", "timeout"}
  \/ o.kind = "response" /\ o.status >= 500

C26_Safety ==
  (http.client = "callService" /\ ~http.noRetry) =>
    LET n == Len(http.log)
    IN /\ n <= 4
       /\ Len(http.waits) = IF Finished THEN n - 1 ELSE n
       /\ \A k \in 1..Len(http.waits) : http.waits[k] = 500 * 2^(k - 1)
       /\ Len(http.waits) = 3 => http.waits = <<500, 1000, 2000>>
       /\ \A k \in 1..n : ResponseOk(http.log[k]) => k = n /\ Finished
       /\ (n > 0 /\ ResponseOk(http.log[n]) /\ http.log[n].read) => http.pc = "returned"
       /\ http.pc = "returned" => ResponseOk(http.log[n]) /\ http.log[n].read
       /\ (http.pc = "thrown" /\ \A k \in 1..n : RetryableFailure(http.log[k])) =>
            /\ n = 4
            /\ http.lastError = ErrorOf(http.client, http.log[n])

C26_BoundedRetry == []C26_Safety /\ <>Finished

C26_Witness ==
  /\ http.client = "callService" /\ ~http.noRetry
  /\ http.pc = "thrown"
  /\ Len(http.log) = 4
  /\ http.waits = <<500, 1000, 2000>>
  /\ http.log[1].kind = "network"
  /\ http.log[2].kind = "timeout"
  /\ http.log[3].kind = "response" /\ http.log[3].status = 500
  /\ http.log[4].kind = "response" /\ http.log[4].status = 503 /\ http.log[4].read
  /\ http.lastError.status = 503

\* C27: a call issued with noRetry makes exactly one request whatever the
\* failure (network error, timeout, 5xx, 4xx) and never waits; the lead pull
\* leadService.next is always issued with noRetry, so it sends at most one
\* request.
C27_NoRetrySingleAttempt ==
  /\ http.site = "leadService.next" => http.client = "callService" /\ http.noRetry
  /\ (http.client = "callService" /\ http.noRetry) =>
       /\ Len(http.log) <= 1
       /\ http.waits = <<>>
       /\ http.pc \in {"fetch", "returned", "thrown"}
       /\ Len(http.log) = 1 <=> Finished

C27_Witness ==
  /\ http.site = "leadService.next"
  /\ Len(http.log) = 1
  /\ http.log[1].kind = "response" /\ http.log[1].status = 503
  /\ http.pc = "thrown"

\* C22: when the lead pull answers without a usable lead (none found, no lead
\* in the answer, or a lead without an e-mail address) no email-generate job
\* is added and no tracking is set up; exactly one finalization is issued, by
\* the lead stage, with total = 0 and status failed, and the ledger shows
\* failed once that update is accepted.
Usable(a) == a.found /\ a.hasLead /\ a.hasEmail

NoUsableLead == stg.pulled /\ ~Usable(stg.leadAnswer)

C22_NoLeadFinalizesFailed ==
  NoUsableLead =>
    /\ pipe[1].gen = "none" /\ pipe[1].send = "none" /\ pipe[1].end = "none"
    /\ stg.events = <<>>
    /\ runKeys[1] = NoKeys
    /\ fin[1] = 1
    /\ Len(stg.early) = 1
    /\ stg.early[1].by = "get-campaign-leads"
    /\ stg.early[1].stats.total = 0
    /\ stg.early[1].status = "failed"
    /\ RunStatus(history, 1) = IF stg.early[1].written THEN "failed" ELSE "running"

C22_Witness ==
  /\ stg.pulled
  /\ stg.leadAnswer = [found |-> TRUE, hasLead |-> TRUE, hasEmail |-> FALSE]
  /\ Len(stg.early) = 1
  /\ stg.early[1].written
  /\ RunStatus(history, 1) = "failed"
  /\ pipe[1].gen = "none"

\* C23: in the email-send stage a received answer whose payload has
\* success = false fails the job with an error message that contains the
\* payload's error text, and the handler that follows records the job as
\* failed: markJobDone increments the failed counter.
RefusedPayload == stg.received /\ ~stg.payload.success

ContainsText(msg, text) ==
  text \in {"absent", ""} \/ \E k \in 1..Len(msg) : msg[k] = text

C23_State ==
  RefusedPayload =>
    /\ stg.sendError # NoMessage
    /\ stg.sendError[1] = "Email sending service returned failure: "
    /\ ContainsText(stg.sendError, stg.payload.error)
    /\ pipe[1].send = "handler" => ~pipe[1].sendOk

C23_Step ==
  (RefusedPayload /\ pipe[1].send = "handler" /\ pipe'[1].send = "done") =>
    /\ GetInt(runKeys'[1], "failed") = GetInt(runKeys[1], "failed") + 1
    /\ GetInt(runKeys'[1], "done") = GetInt(runKeys[1], "done") + 1

C23_PayloadFailureIsFailure == []C23_State /\ [][C23_Step]_vars

C23_Witness ==
  /\ stg.received
  /\ stg.payload = [success |-> FALSE, error |-> "X"]
  /\ stg.sendError = <<"Email sending service returned failure: ", "X">>
  /\ pipe[1].send = "done"
  /\ GetInt(runKeys[1], "failed") = 1

\* C24: when the brand-profile call fails, the get-brand-sales-profile stage
\* does not fail the run: with its add accepted it has added exactly one
\* get-campaign-leads job, whose company name is the host of the brand URL
\* without a leading "www." and whose brand id is the one of its own envelope,
\* and it has issued no finalization.
HostWithoutWww(u) ==
  LET h == Hostname(u)
  IN IF Len(h) >= 2 /\ Head(h) = "www" THEN SubSeq(h, 2, Len(h)) ELSE h

ProfileFinalized == \E k \in 1..Len(stg.early) : stg.early[k].by = "get-brand-sales-profile"

C24_ProfileFallback ==
  stg.profileAnswer = "fails" =>
    /\ ProfileFinalized <=> stg.profileAdd = "rejected"
    /\ stg.profileAdd = "accepted" =>
         /\ Len(stg.leadsJobs) = 1
         /\ stg.leadsJobs[1].brandId = stg.profileJob.brandId
         /\ stg.leadsJobs[1].brandId = stg.details.brandId
         /\ stg.leadsJobs[1].clientData.companyName = HostWithoutWww(stg.profileJob.brandUrl)
         /\ stg.leadsJobs[1].clientData.brandUrl = stg.profileJob.brandUrl
         /\ ~stg.leadsJobs[1].clientData.hasProfile

C24_Witness ==
  /\ stg.profileAnswer = "fails"
  /\ stg.profileJob.brandUrl.host = <<"WWW", "Acme", "com">>
  /\ Len(stg.leadsJobs) = 1
  /\ stg.leadsJobs[1].clientData.companyName = <<"acme", "com">>
  /\ stg.leadsJobs[1].brandId = "brand-2"
  /\ pipe[1].stage = "leads"

\* C29: for a run with a usable lead the tracking is initialised with
\* total = number of email-generate jobs, done = 0, failed = 0 before the jobs
\* are added, so that every markJobDone of the run comes after the
\* initialisation.
Initialised == stg.events # <<>> /\ stg.events[1] = "init"

AddStep == pipe[1].gen = "none" /\ pipe'[1].gen = "queued"

MarkStep ==
  \/ pipe[1].gen = "handler" /\ pipe'[1].gen # "handler"
  \/ pipe[1].send = "handler" /\ pipe'[1].send # "handler"

C29_Step ==
  /\ AddStep =>
       /\ Initialised
       /\ Usable(stg.leadAnswer)
       /\ runKeys[1] = [total |-> 1, done |-> 0, failed |-> 0]
  /\ MarkStep => Initialised

C29_TrackingBeforeFanOut == [][C29_Step]_vars

C29_Witness ==
  /\ stg.events = <<"init", "add">>
  /\ pipe[1].gen = "done"
  /\ GetInt(runKeys[1], "done") >= 1

\* C31: within one run the stages follow the pipeline order: a job of a
\* stage is added only by the processor of the preceding stage's job of that
\* run, while that job succeeds, and each successful create-run,
\* get-campaign-info and get-brand-sales-profile job has added exactly one job
\* for the next stage, carrying the same run id, campaign id and organization
\* id.
ChainQueues == <<"get-campaign-info", "get-brand-sales-profile", "get-campaign-leads">>

ChainStages == <<"create-run", "get-campaign-info", "get-brand-sales-profile">>

AddedTo(q) == {k \in 1..Len(stg.added) : stg.added[k].queue = q}

SameIds(a, b) ==
  /\ a.campaignId = b.campaignId
  /\ a.clerkOrgId = b.clerkOrgId
  /\ b.runId # "none" => a.runId = b.runId

C31_State ==
  /\ \A n \in 1..3 :
       /\ Cardinality(AddedTo(ChainQueues[n])) = IF ChainStages[n] \in stg.succeeded THEN 1 ELSE 0
       /\ \A k \in AddedTo(ChainQueues[n]) :
            /\ k = n
            /\ SameIds(stg.added[k].ids, stg.added[k].by)
            /\ stg.added[k].ids.runId \in RunNames
            /\ stg.added[k].ids = stg.infoJob
            /\ SameIds(stg.added[k].ids, stg.createJob)
  /\ pipe[1].stage \in {"info", "profile", "leads", "leadsInit", "leadsAdd", "fanout"} =>
       "create-run" \in stg.succeeded
  /\ pipe[1].stage \in {"profile", "leads", "leadsInit", "leadsAdd", "fanout"} =>
       "get-campaign-info" \in stg.succeeded
  /\ pipe[1].stage \in {"leads", "leadsInit", "leadsAdd", "fanout"} =>
       "get-brand-sales-profile" \in stg.succeeded
  /\ pipe[1].gen # "none" => stg.events = <<"init", "add">>
  /\ pipe[1].send # "none" => pipe[1].gen # "none"

C31_Step ==
  /\ (pipe[1].gen = "none" /\ pipe'[1].gen = "queued") => pipe[1].stage = "leadsAdd"
  /\ (pipe[1].send = "none" /\ pipe'[1].send = "queued") =>
       pipe[1].gen = "queued" /\ pipe'[1].gen = "handler"

C31_StagesInOrder == []C31_State /\ [][C31_Step]_vars

C31_Witness ==
  /\ Len(stg.added) = 3
  /\ stg.added[3].queue = "get-campaign-leads"
  /\ stg.added[3].ids = [runId |-> "run-2", campaignId |-> "campaign-1", clerkOrgId |-> "org-1"]
  /\ stg.succeeded = {"create-run", "get-campaign-info", "get-brand-sales-profile"}
  /\ pipe[1].send = "queued"

\* ---------------------------------------------------------------- C32
\* C32: once the shutdown flag is set no poll starts any more, and a
\* termination signal is handled in this order: the flag is set and the
\* interval cleared before any worker is asked to close, and the shared
\* counter-store connection is closed only after every worker has closed.
ShutdownBegun ==
  \E x \in {"closing", "closed", "rejected"} : proc.workers[x] > 0

C32_State ==
  /\ ShutdownBegun => isShuttingDown /\ proc.interval = "cleared"
  /\ proc.conn \in {"quitting", "closed"} =>
       \A x \in {"off", "running", "closing", "rejected"} : proc.workers[x] = 0

C32_Step ==
  isShuttingDown =>
    \A i \in TickIds : ticks'[i].pc = "listing" => ticks[i].pc = "listing"

C32_ShutdownOrder == []C32_State /\ [][C32_Step]_vars

\* a signal was handled to the end while an interval callback was still due
C32_Witness ==
  /\ proc.exit = 0 /\ proc.conn = "closed" /\ isShuttingDown
  /\ \E i \in TickIds : ticks[i].pc = "pending"

\* ---------------------------------------------------------------- C33
\* C33: when REDIS_URL or EMAIL_GATEWAY_SERVICE_API_KEY is not set at startup
\* the process exits with code 1 and neither the scheduler nor any worker is
\* ever started.
MissingEnv ==
  /\ proc.on
  /\ \/ proc.env["REDIS_URL"] \in {"unset", ""}
     \/ proc.env["EMAIL_GATEWAY_SERVICE_API_KEY"] \in {"unset", ""}

NothingStarted ==
  /\ proc.interval = "off"
  /\ proc.conn = "none"
  /\ \A x \in {"running", "closing", "closed", "rejected"} : proc.workers[x] = 0
  /\ \A i \in TickIds : ticks[i].pc \in {"off", "pending"}
  /\ ~isPolling

C33_FailFast ==
  MissingEnv =>
    /\ NothingStarted
    /\ proc.pc \in {"boot", "exited"}
    /\ proc.pc = "exited" => proc.exit = 1

\* only the gateway key is missing and the process has exited
C33_Witness ==
  /\ MissingEnv /\ proc.env["REDIS_URL"] = "redis://x"
  /\ proc.pc = "exited" /\ proc.exit = 1

\* ---------------------------------------------------------------- C34
\* C34: when every one of the N >= 2 sub-jobs of a run fails, the snapshot
\* returned to the caller that gets isLast has failed = total under every
\* interleaving of the markJobDone calls, so the run is finalized as failed.
AllSubJobsFail ==
  expected >= 2 /\ \A i \in Callers : i <= expected => ~calls[i].success

C34_AllFailedSnapshot ==
  AllSubJobsFail =>
    \A i \in Callers :
      (calls[i].pc = "returned" /\ calls[i].isLast) =>
        /\ calls[i].failed = calls[i].total
        /\ FinalStatus([total |-> calls[i].total, done |-> calls[i].done,
                        failed |-> calls[i].failed]) = "failed"

\* ---------------------------------------------------------------- C35
\* C35: a run is recorded as completed only if one of its email-send jobs got
\* an answer with success = true from the delivery gateway; a run in which
\* every delivery failed, was skipped or was not yet attempted is never
\* recorded as completed.
Delivered == stg.received /\ stg.payload.success

C35_CompletedOnlyIfDelivered ==
  (Len(history) >= 1 /\ RunStatus(history, 1) = "completed") => Delivered

\* ---------------------------------------------------------------- C36
\* C36: an admission check requests a budget-based stop of the campaign if
\* and only if a total limit is configured and the lifetime spend has reached
\* it - also when a narrower window is exceeded as well, and never for a
\* campaign without any budget limit.
LifetimeSpent == Configured("total") /\ WindowSpend("total") >= campaign.budget["total"] * 100

BudgetChecked == gateResult.evaluated /\ NoFault /\ ~gateResult.hasRunningRun

\* the stop was requested by the budget branch of the evaluation
BudgetStop ==
  /\ gateResult.stop
  /\ IsBudgetExceeded(campaign, gateResult.ledger, calendar, env.getRunsBatch).exceeded

C36_StopIffLifetimeSpent ==
  BudgetChecked => (BudgetStop <=> LifetimeSpent)

\* ---------------------------------------------------------------- C37
\* C37: the spend of the total window covers every run the campaign ever had,
\* however many there are: once the lifetime spend has reached the total
\* limit the budget check refuses, also when the ledger holds more runs than
\* one list request returns.
C37_LifetimeSpendComplete ==
  (budgetResult.called /\ ~budgetResult.threw /\ LifetimeSpent) =>
    /\ budgetResult.exceeded
    /\ budgetResult.spendCents = WindowSpend("total")

\* ---------------------------------------------------------------- C38
\* C38: fetching the cost of the runs inside the broadest configured window
\* only never changes the outcome of the budget check: every listed run inside
\* some configured window is inside the broadest one, and the result is the
\* one obtained from the cost of every listed run.

\* the budget check with the cost of every listed run fetched
BudgetOverAllRuns ==
  LET windows == GetBudgetWindows(campaign, calendar)
  IN IF Len(windows) = 0
       THEN [exceeded |-> TRUE, which |-> "total", spendCents |-> 0, threw |-> FALSE]
     ELSE IF Len(history) = 0 THEN NotExceeded
     ELSE CheckWindows(windows, history, 1)

BudgetAnswered == budgetResult.called /\ env.getRunsBatch /\ ~budgetResult.threw

BroadestCovers ==
  NoWindow \/
    LET broadest == BroadestWindow(GetBudgetWindows(campaign, calendar))
    IN \A l \in LabelSet, k \in 1..Len(history) :
         (Configured(l) /\ RunInside(l, k)) => InWindow(broadest, history[k])

SameAsAllRuns ==
  [exceeded |-> budgetResult.exceeded, which |-> budgetResult.which,
   spendCents |-> budgetResult.spendCents, threw |-> budgetResult.threw]
    = BudgetOverAllRuns

ZeroLimit == \E l \in LabelSet : campaign.budget[l] = 0

LateCaller(i) ==
  /\ calls[i].pc = "returned"
  /\ calls[i].total = 0

C39_CountersExpire ==
  /\ \A k \in Keys : redis[k] # Absent => k \in ttl
  /\ \A i \in Callers : LateCaller(i) => ~calls[i].isLast

\* ---------------------------------------------------------------- C40
\* C40: the in-flight-poll flag is lowered whenever a poll ends, completed or
\* failed (campaign listing, admission evaluation, enqueue), so a tick that
\* fires after a failed poll runs a full poll again.
PollFailed(i) == ticks[i].pc = "finished" /\ ticks[i].error # "none"

C40_State == InFlight = {} => ~isPolling

C40_Step ==
  \A i \in TickIds :
    (ticks[i].pc = "pending" /\ ticks'[i].pc # "pending"
       /\ ~isShuttingDown /\ InFlight = {}) =>
      ticks'[i].pc = "listing"

C40_FlagAlwaysCleared == []C40_State /\ [][C40_Step]_vars

\* one poll failed at the listing, one at the add, and a third one ran to
\* the end and added the first-stage job
C40_Witness ==
  \E i, j, k \in TickIds :
    /\ PollFailed(i) /\ ticks[i].error = "listCampaigns"
    /\ PollFailed(j) /\ ticks[j].error = "add"
    /\ ticks[k].pc = "finished" /\ ticks[k].enqueued

====
